---- MODULE Spec2Model ----
(***************************************************************************)
(* A model of the NormalJS object layer: scope composition (ScopeBuilder), *)
(* the Request thenable, the Repository context store, the Model identity  *)
(* map (allocate / create / findById) and the Record flush life cycle.     *)
(*                                                                         *)
(* JavaScript objects are functions whose DOMAIN is the set of own keys:   *)
(* a key that is absent from the DOMAIN is `undefined`.                    *)
(***************************************************************************)
EXTENDS Integers, Sequences, FiniteSets, TLC

VARIABLES
    cfg,        \* scope declarations of the model: [builder, scopes, default]
    req,        \* the Request under construction / execution
    thrown,     \* the error thrown synchronously by the last Model call
    context,    \* the heap of context Maps (Repository._context)
    repoState,  \* per repository: its state, its parent and its context Map
    ctxLast,    \* the last context operation
    records,    \* the heap of Record instances
    models,     \* per model: cls_init, the discriminator flag and the identity map
    tables,     \* external storage: per model, primary key -> row
    last,       \* the last Model call and its result
    calls,      \* the completed flush() calls, in order
    cache,      \* the cache store: key -> [value, expires]
    now,        \* Date.now(), in clock ticks
    cmodel,     \* the caching state of a model: [cacheTTL, cacheInvalidateMs]
    pool,       \* the Request objects callers hold, with what each has done
    tx          \* the Repository.transaction call in progress and its repository

\* What the actions of one part of the model leave alone.
cacheVars == <<cache, now, cmodel, pool, tx>>
notScope == <<context, repoState, ctxLast, records, models, tables, last, calls, cacheVars>>
notContext == <<cfg, req, thrown, records, models, tables, last, calls, cacheVars>>
notIdentity == <<cfg, req, thrown, context, repoState, ctxLast, calls, cacheVars>>
notFlush == <<cfg, req, thrown, context, repoState, ctxLast, models, last, cacheVars>>
notCache == <<cfg, req, thrown, context, repoState, ctxLast, records, models, tables, last, calls, tx>>
notTx == <<cfg, req, thrown, context, repoState, ctxLast, records, models, tables, last, calls,
          now, cmodel, pool>>
vars == <<cfg, req, thrown, context, repoState, ctxLast, records, models, tables, last, calls,
          cache, now, cmodel, pool, tx>>

\* The empty JavaScript object {}.
EmptyObj == <<>>

\* obj with key k set to v (Object.assign / spread with one override).
Put(obj, k, v) == [x \in (DOMAIN obj) \cup {k} |-> IF x = k THEN v ELSE obj[x]]

Has(obj, k) == k \in DOMAIN obj

Max(S) == CHOOSE x \in S : \A y \in S : y <= x

Min(S) == CHOOSE x \in S : \A y \in S : x <= y

(***************************************************************************)
(* Criteria (the `where` DSL).  A criteria object has field predicates     *)
(* (preds: pairs <<field, value>>) and optionally the logic gate `and`     *)
(* (a list of criteria); all entries of one object hold together.          *)
(***************************************************************************)
Atoms == {"deleted", "active"}

Rows == [Atoms -> BOOLEAN]

RECURSIVE Matches(_, _)
Matches(row, c) ==
    /\ \A p \in c.preds : row[p[1]] = p[2]
    /\ Has(c, "and") => \A i \in 1..Len(c.and) : Matches(row, c.and[i])

\* `undefined` where a criteria object is expected.
NoWhere == [undefined |-> TRUE]

IsWhere(w) == ~Has(w, "undefined")

W_notDeleted == [preds |-> {<<"deleted", FALSE>>}]
W_active == [preds |-> {<<"active", TRUE>>}]
W_andOnly == [preds |-> {}, and |-> <<W_active, W_notDeleted>>]
W_andSibling == [preds |-> {<<"deleted", FALSE>>}, and |-> <<W_active>>]

(***************************************************************************)
(* ScopeBuilder                                                            *)
(***************************************************************************)
ModelName == "Tasks"

MergeWhere(base, incoming) ==
    IF ~IsWhere(base) THEN incoming
    ELSE IF ~IsWhere(incoming) THEN base
    ELSE IF Has(base, "and") THEN [preds |-> {}, and |-> Append(base.and, incoming)]
    ELSE [preds |-> {}, and |-> <<base, incoming>>]

LastWinsKeys == {"cache", "order", "limit", "offset", "attributes"}

\* A merge that keeps an option the base already has (first-wins).
MergeOptionsFirstWins(base, incoming) ==
    LET keys == (DOMAIN base) \cup ((DOMAIN incoming) \cap (LastWinsKeys \cup {"where"}))
    IN [k \in keys |->
          IF k = "where" /\ Has(incoming, "where")
            THEN MergeWhere(IF Has(base, "where") THEN base.where ELSE NoWhere, incoming.where)
          ELSE IF Has(base, k) THEN base[k]
          ELSE incoming[k]]

MergeOptions(base, incoming) ==
    LET keys == (DOMAIN base) \cup ((DOMAIN incoming) \cap (LastWinsKeys \cup {"where"}))
    IN [k \in keys |->
          IF k = "where" /\ Has(incoming, "where")
            THEN MergeWhere(IF Has(base, "where") THEN base.where ELSE NoWhere, incoming.where)
          ELSE IF k \in LastWinsKeys /\ Has(incoming, k) THEN incoming[k]
          ELSE base[k]]

\* The result of applyScopes: the merged options, or the error it throws.
Merged(opts) == [ok |-> TRUE, opts |-> opts]
ScopeError(name) == [ok |-> FALSE, kind |-> "ScopeNotDefined", scope |-> name, model |-> ModelName]

\* An applyScopes loop that skips a name it does not know.
RECURSIVE ApplyNamedLenient(_, _, _)
ApplyNamedLenient(scopes, merged, scopeRequests) ==
    IF scopeRequests = <<>> THEN Merged(merged)
    ELSE LET scopeName == Head(scopeRequests)
         IN IF ~Has(scopes, scopeName)
              THEN ApplyNamedLenient(scopes, merged, Tail(scopeRequests))
              ELSE ApplyNamedLenient(scopes, MergeOptions(merged, scopes[scopeName]),
                                     Tail(scopeRequests))

RECURSIVE ApplyNamed(_, _, _)
ApplyNamed(scopes, merged, scopeRequests) ==
    IF scopeRequests = <<>> THEN Merged(merged)
    ELSE LET scopeName == Head(scopeRequests)
         IN IF ~Has(scopes, scopeName) THEN ScopeError(scopeName)
            ELSE ApplyNamed(scopes, MergeOptions(merged, scopes[scopeName]), Tail(scopeRequests))

NoDefault == [null |-> TRUE]

HasDefault(c) == ~Has(c.default, "null")

ApplyScopes(c, scopeRequests, includeDefault) ==
    LET start == IF includeDefault /\ HasDefault(c)
                   THEN MergeOptions(EmptyObj, c.default)
                   ELSE EmptyObj
    IN ApplyNamed(c.scopes, start, scopeRequests)

(***************************************************************************)
(* Model.extends: the scope declarations of a registered class are merged  *)
(* into the model's ScopeBuilder.                                          *)
(***************************************************************************)
ScopeNames == {"A", "B"}

\* A name no class registers.
UnknownName == "Z"

OptionChoices ==
    { [where |-> W_active],
      [where |-> W_notDeleted, order |-> "x", limit |-> 10],
      [order |-> "y", limit |-> 3, offset |-> 1, cache |-> 60, attributes |-> "title"],
      [where |-> W_andSibling, cache |-> 5],
      [where |-> W_andOnly, offset |-> 2] }

\* The static members a registered class may carry.
Declarations ==
    {EmptyObj}
      \cup {[scopes |-> [x \in {n} |-> o]] : n \in ScopeNames, o \in OptionChoices}
      \cup {[defaultScope |-> d] : d \in OptionChoices}
      \cup {[scopes |-> [x \in {n} |-> o], defaultScope |-> d] :
               n \in ScopeNames, o \in OptionChoices, d \in OptionChoices}

MaxRegistrations == 2

NoBuilder == [builder |-> FALSE, scopes |-> EmptyObj, default |-> NoDefault, registered |-> 0]

\* {...a, ...b}
Spread(a, b) == [k \in (DOMAIN a) \cup (DOMAIN b) |-> IF Has(b, k) THEN b[k] ELSE a[k]]

Extends(c, decl) ==
    IF Has(decl, "scopes") \/ Has(decl, "defaultScope")
      THEN LET scopes == IF Has(decl, "scopes") THEN decl.scopes ELSE EmptyObj
               defaultScope == IF Has(decl, "defaultScope") THEN decl.defaultScope ELSE NoDefault
           IN IF ~c.builder
                THEN [builder |-> TRUE, scopes |-> scopes, default |-> defaultScope,
                      registered |-> c.registered + 1]
                ELSE [builder |-> TRUE, scopes |-> Spread(c.scopes, scopes),
                      default |-> IF Has(decl, "defaultScope") THEN defaultScope ELSE c.default,
                      registered |-> c.registered + 1]
      ELSE [c EXCEPT !.registered = @ + 1]

(***************************************************************************)
(* Request                                                                 *)
(***************************************************************************)
NotResolved == [ok |-> FALSE, kind |-> "pending"]

NoOutcome == [status |-> "none"]

NoRequest ==
    [kind |-> "none", applyDefault |-> "undefined", scopeRequests |-> <<>>,
     scopesApplied |-> FALSE, wheres |-> <<>>, builder |-> EmptyObj,
     resolution |-> NotResolved, withDefault |-> FALSE, awaits |-> 0, outcome |-> NoOutcome]

NoThrow == [call |-> "none", hadBuilder |-> FALSE, kind |-> "none"]

\* new Request(model, queryBuilder)
NewRequest(kind) == [NoRequest EXCEPT !.kind = kind]

ModelQuery(c) ==
    IF c.builder /\ HasDefault(c)
      THEN [NewRequest("query") EXCEPT !.applyDefault = "true"]
      ELSE NewRequest("query")

ModelWhere(c, condition) ==
    [ModelQuery(c) EXCEPT !.kind = "where", !.wheres = <<condition>>]

\* Model.scope without the guard on the scope builder.
ModelScopeUnguarded(c, scopeRequests) ==
    [thrown |-> [call |-> "scope", hadBuilder |-> c.builder, kind |-> "none"],
     req |-> [ModelQuery(c) EXCEPT !.kind = "scope", !.scopeRequests = scopeRequests]]

\* Model.scope: the call's result, [thrown, req]; req is NoRequest when it throws.
ModelScope(c, scopeRequests) ==
    IF ~c.builder
      THEN [thrown |-> [call |-> "scope", hadBuilder |-> FALSE, kind |-> "NoScopes",
                        model |-> ModelName],
            req |-> NoRequest]
      ELSE [thrown |-> [call |-> "scope", hadBuilder |-> TRUE, kind |-> "none"],
            req |-> [ModelQuery(c) EXCEPT !.kind = "scope", !.scopeRequests = scopeRequests]]

ModelUnscoped == [NewRequest("unscoped") EXCEPT !.applyDefault = "false"]

RequestUnscoped(r) == [r EXCEPT !.applyDefault = "false"]

\* The settings _applyScopes pushes onto the query builder, where aside.
PushedKeys == {"order", "limit", "offset", "cache"}

\* Request._applyScopes; thrown is TRUE when applyScopes threw.
ApplyScopesToRequest(c, r) ==
    IF r.scopesApplied THEN [thrown |-> FALSE, req |-> r]
    ELSE IF ~c.builder THEN [thrown |-> FALSE, req |-> [r EXCEPT !.scopesApplied = TRUE]]
    ELSE LET includeDefault == r.applyDefault # "false"
             res == ApplyScopes(c, r.scopeRequests, includeDefault)
             marked == [r EXCEPT !.scopesApplied = TRUE, !.resolution = res,
                                 !.withDefault = includeDefault]
         IN IF ~res.ok THEN [thrown |-> TRUE, req |-> marked]
            ELSE [thrown |-> FALSE,
                  req |-> [marked EXCEPT
                      !.wheres = IF Has(res.opts, "where") THEN Append(@, res.opts.where) ELSE @,
                      !.builder = [k \in (DOMAIN res.opts) \cap PushedKeys |-> res.opts[k]]]]

\* The rows the external query builder returns for the predicates pushed onto it.
Execute(r) == {row \in Rows : \A i \in 1..Len(r.wheres) : Matches(row, r.wheres[i])}

\* Request.then: one await of the request.
RequestThen(c, r) ==
    LET applied == ApplyScopesToRequest(c, r)
        q == [applied.req EXCEPT !.awaits = @ + 1]
    IN IF applied.thrown
         THEN [q EXCEPT !.outcome = [status |-> "rejected",
                                     error |-> [kind |-> q.resolution.kind,
                                                scope |-> q.resolution.scope,
                                                model |-> q.resolution.model]]]
         ELSE [q EXCEPT !.outcome = [status |-> "rows", rows |-> Execute(q)]]

MaxScopeRequests == 2

MaxAwaits == 2

RECURSIVE SeqsUpTo(_, _)
SeqsUpTo(S, n) ==
    IF n = 0 THEN {<<>>}
    ELSE LET shorter == SeqsUpTo(S, n - 1)
         IN shorter \cup {Append(s, x) : s \in shorter, x \in S}

ScopeRequestLists == SeqsUpTo(ScopeNames \cup {UnknownName}, MaxScopeRequests)

Register(decl) ==
    /\ req.kind = "none"
    /\ cfg.registered < MaxRegistrations
    /\ cfg' = Extends(cfg, decl)
    /\ UNCHANGED <<req, thrown, notScope>>

Query ==
    /\ req.kind = "none"
    /\ req' = ModelQuery(cfg)
    /\ thrown' = [call |-> "query", hadBuilder |-> cfg.builder, kind |-> "none"]
    /\ UNCHANGED <<cfg, notScope>>

Where ==
    /\ req.kind = "none"
    /\ req' = ModelWhere(cfg, W_active)
    /\ thrown' = [call |-> "where", hadBuilder |-> cfg.builder, kind |-> "none"]
    /\ UNCHANGED <<cfg, notScope>>

Scope(scopeRequests) ==
    /\ req.kind = "none"
    /\ req' = ModelScope(cfg, scopeRequests).req
    /\ thrown' = ModelScope(cfg, scopeRequests).thrown
    /\ UNCHANGED <<cfg, notScope>>

Unscoped ==
    /\ req.kind = "none"
    /\ req' = ModelUnscoped
    /\ thrown' = [call |-> "unscoped", hadBuilder |-> cfg.builder, kind |-> "none"]
    /\ UNCHANGED <<cfg, notScope>>

CallUnscoped ==
    /\ req.kind # "none"
    /\ req.applyDefault # "false"
    /\ req' = RequestUnscoped(req)
    /\ UNCHANGED <<cfg, thrown, notScope>>

Then ==
    /\ req.kind # "none"
    /\ req.awaits < MaxAwaits
    /\ req' = RequestThen(cfg, req)
    /\ UNCHANGED <<cfg, thrown, notScope>>

\* The caller drops the request.
Release ==
    /\ req.kind # "none"
    /\ req' = NoRequest
    /\ UNCHANGED <<cfg, thrown, notScope>>

ScopeInit ==
    /\ cfg = NoBuilder
    /\ req = NoRequest
    /\ thrown = NoThrow

ScopeNext ==
    \/ \E decl \in Declarations : Register(decl)
    \/ Query
    \/ Where
    \/ \E l \in ScopeRequestLists : Scope(l)
    \/ Unscoped
    \/ CallUnscoped
    \/ Then
    \/ Release

(***************************************************************************)
(* Repository context.  Repository 0 is the root repository; the others    *)
(* are the repositories Repository.transaction creates.  Every Repository  *)
(* owns a Map, an object of the heap `context`, named by its index.        *)
(***************************************************************************)
MaxTx == 1

Repos == 0..MaxTx

Keys == {"tenant_id", "locale"}

Values == {"v1", "v2"}

\* What get_context returns for a missing key when no default is passed.
Undefined == "undefined"

NoRepo == [state |-> "unused", parent |-> 0, map |-> 0]

\* get_context(key, defaultValue) on repository r.
GetContext(ctxs, rs, r, key, defaultValue) ==
    LET m == ctxs[rs[r].map]
    IN IF Has(m, key) THEN m[key] ELSE defaultValue

\* set_context(key, value) on repository r: the Maps after the call.
SetContext(ctxs, rs, r, key, value) ==
    [ctxs EXCEPT ![rs[r].map] = Put(@, key, value)]

\* Record.set_context on a record whose model belongs to repository r.
RecordSetContext(ctxs, rs, r, key, value) == SetContext(ctxs, rs, r, key, value)

\* A transaction whose repository works on the parent's Map itself.
TransactionSharedMap(ctxs, rs, p, t) ==
    [context |-> ctxs,
     repoState |-> [rs EXCEPT ![t] = [state |-> "open", parent |-> p, map |-> rs[p].map]]]

\* Repository.transaction up to the call of `work`: a new Repository (with a
\* Map of its own) that receives every entry of the parent's Map.
Transaction(ctxs, rs, p, t) ==
    LET fresh == Len(ctxs) + 1
        inherited == Spread(EmptyObj, ctxs[rs[p].map])
    IN [context |-> Append(ctxs, inherited),
        repoState |-> [rs EXCEPT ![t] = [state |-> "open", parent |-> p, map |-> fresh]]]

NoCtxOp == [op |-> "none", repo |-> 0, key |-> "none"]

ContextSet(r, key, value) ==
    /\ repoState[r].state # "unused"
    /\ context' = SetContext(context, repoState, r, key, value)
    /\ ctxLast' = [op |-> "set", repo |-> r, key |-> key]
    /\ UNCHANGED <<repoState, notContext>>

ContextSetFromRecord(r, key, value) ==
    /\ repoState[r].state # "unused"
    /\ context' = RecordSetContext(context, repoState, r, key, value)
    /\ ctxLast' = [op |-> "record_set", repo |-> r, key |-> key]
    /\ UNCHANGED <<repoState, notContext>>

TransactionBegin(p, t) ==
    /\ repoState[p].state = "open"
    /\ repoState[t].state = "unused"
    /\ \A u \in Repos : u < t => repoState[u].state # "unused"
    /\ context' = Transaction(context, repoState, p, t).context
    /\ repoState' = Transaction(context, repoState, p, t).repoState
    /\ ctxLast' = [op |-> "transaction", repo |-> t, key |-> "none"]
    /\ UNCHANGED notContext

\* commit, or rollback when `work` or the flush failed.
TransactionEnd(t) ==
    /\ t # 0
    /\ repoState[t].state = "open"
    /\ repoState' = [repoState EXCEPT ![t].state = "closed"]
    /\ ctxLast' = [op |-> "end", repo |-> t, key |-> "none"]
    /\ UNCHANGED <<context, notContext>>

CtxInit ==
    /\ context = <<EmptyObj>>
    /\ repoState = [r \in Repos |->
                      IF r = 0 THEN [state |-> "open", parent |-> 0, map |-> 1] ELSE NoRepo]
    /\ ctxLast = NoCtxOp

ContextNext ==
    \/ \E r \in Repos, k \in Keys, v \in Values : ContextSet(r, k, v)
    \/ \E r \in Repos, k \in Keys, v \in Values : ContextSetFromRecord(r, k, v)
    \/ \E p \in Repos, t \in Repos : TransactionBegin(p, t)
    \/ \E t \in Repos : TransactionEnd(t)

(***************************************************************************)
(* Models, records and the identity map.  Base is a model without parent;  *)
(* ChildA and ChildB inherit from it (class-table inheritance).            *)
(***************************************************************************)
Models == {"Base", "ChildA", "ChildB"}

None == "none"

\* static inherits
Inherits(m) == IF m = "Base" THEN None ELSE "Base"

\* The name of the inherit (discriminator) field added to the parent model.
InheritField == "_inherit"

\* static fields
DeclaredFields(m) == IF m = "Base" THEN {"id", "title", "note"} ELSE {"id", "name"}

\* Model.fields: the declared fields and, on a parent whose child has been
\* initialized, the discriminator reference field.
Fields(ms, m) == DeclaredFields(m) \cup (IF ms[m].refField THEN {InheritField} ELSE {})

NewModel == [cls_init |-> FALSE, refField |-> FALSE, entities |-> EmptyObj]

\* Model._init
ModelInit(ms, m) ==
    IF ms[m].cls_init THEN ms
    ELSE IF Inherits(m) # None
      THEN LET s == Inherits(m)
           IN [ms EXCEPT ![s].cls_init = TRUE, ![s].refField = TRUE, ![m].cls_init = TRUE]
      ELSE [ms EXCEPT ![m].cls_init = TRUE]

\* data.id, 0 when it is missing (a falsy id).
IdOf(data) == IF Has(data, "id") THEN data.id ELSE 0

\* Record.sync on a record whose parent, if any, has been synced (heap up).
SyncOwn(up, ms, r, data) ==
    [up EXCEPT ![r] =
        [@ EXCEPT
           !.data = [f \in (DOMAIN @) \cup
                              {g \in Fields(ms, up[r].model) \cap DOMAIN data :
                                  ~(g = "id" /\ IdOf(up[r].data) # 0)} |->
                        IF f \in Fields(ms, up[r].model) \cap DOMAIN data
                             /\ ~(f = "id" /\ IdOf(up[r].data) # 0)
                          THEN data[f] ELSE up[r].data[f]],
           !.changes = [f \in (DOMAIN @) \
                              {g \in Fields(ms, up[r].model) \cap DOMAIN data :
                                  ~(g = "id" /\ IdOf(up[r].data) # 0)} |-> up[r].changes[f]],
           !.isReady = "true",
           !.isDirty = ((DOMAIN up[r].changes) \
                              {g \in Fields(ms, up[r].model) \cap DOMAIN data :
                                  ~(g = "id" /\ IdOf(up[r].data) # 0)} # {})]]

\* Record.sync
RECURSIVE Sync(_, _, _, _)
Sync(recs, ms, r, data) ==
    SyncOwn(IF recs[r].parent # 0 THEN Sync(recs, ms, recs[r].parent, data) ELSE recs,
            ms, r, data)

\* The end of the Record constructor, after its call of sync.
Constructed(synced, r, data) ==
    [synced EXCEPT ![r].isReady = IF Cardinality(DOMAIN data) > 1 THEN "true" ELSE "false",
                   ![r].flushed = FALSE,
                   ![r].isDirty = FALSE]

\* new Record(model, data, parent): the heap with the new record at its end.
NewRecord(recs, ms, m, data, parent) ==
    Constructed(
        Sync(Append(recs, [model |-> m, parent |-> parent, data |-> EmptyObj,
                           changes |-> EmptyObj, isReady |-> "false", isDirty |-> FALSE,
                           flushed |-> FALSE]),
             ms, Len(recs) + 1, data),
        Len(recs) + 1, data)

\* The end of Model.allocate: the new instance r enters the identity maps.
Registered(st, m, r, id) ==
    [st EXCEPT
       !.records = [@ EXCEPT ![r].isReady =
                       IF id # 0 /\ @ = "false" THEN "pending" ELSE @],
       !.models = [n \in Models |->
                     IF id # 0 /\ n \in {m, Inherits(m)}
                       THEN [@[n] EXCEPT !.entities = Put(@, id, r)]
                       ELSE @[n]],
       !.result = r]

\* Model.allocate once the parent record (up.result, 0 when there is none)
\* has been allocated.
Instantiate(up, m, data) ==
    Registered([up EXCEPT !.records = NewRecord(@, up.models, m, data, up.result)],
               m, Len(up.records) + 1, IdOf(data))

\* Model.allocate from the identity-map check on: what allocate(data, true)
\* does, and what allocate(data) does when it finds no child model to route to.
RECURSIVE AllocateHere(_, _, _)
AllocateHere(st, m, data) ==
    IF IdOf(data) # 0 /\ Has(st.models[m].entities, IdOf(data))
      THEN [st EXCEPT
              !.records = Sync(@, st.models, st.models[m].entities[IdOf(data)], data),
              !.result = st.models[m].entities[IdOf(data)]]
      ELSE Instantiate(IF Inherits(m) # None
                         THEN AllocateHere(st, Inherits(m), Put(data, InheritField, m))
                         ELSE [st EXCEPT !.result = 0],
                       m, data)

\* discValue: the value data carries for the discriminator field, None when
\* it is missing or falsy (the empty string).
DiscValue(data) ==
    IF Has(data, InheritField) /\ data[InheritField] # "" THEN data[InheritField] ELSE None

\* allocate that goes on in the model it is called on although the model has a
\* discriminator.
AllocateUnrouted(st, m, data) ==
    AllocateHere([st EXCEPT !.models = ModelInit(st.models, m)], m, data)

\* Model.allocate(data); st.thrown names the error when it throws.
Allocate(st, m, data) ==
    LET ms == ModelInit(st.models, m)
        dv == DiscValue(data)
        routed == [st EXCEPT !.models = IF dv = None THEN ms ELSE ModelInit(ms, dv)]
    IN IF ms[m].refField
         THEN IF dv = None
                THEN [st EXCEPT !.models = ms, !.result = 0, !.thrown = "NoDiscriminator"]
                ELSE AllocateHere(routed, dv, data)
       ELSE IF dv # None /\ Inherits(dv) = m THEN AllocateHere(routed, dv, data)
       ELSE AllocateHere([st EXCEPT !.models = ms], m, data)

\* The value of every column as the accessors read it: a pending change first.
Current(rec) == Spread(rec.data, rec.changes)

\* The key an auto-increment insert generates.
NextId(table) == IF DOMAIN table = {} THEN 1 ELSE Max(DOMAIN table) + 1

\* The row Model.create inserts for a record: its stored fields that have a value.
ToInsert(ms, rec) ==
    [f \in Fields(ms, rec.model) \cap DOMAIN Current(rec) |-> Current(rec)[f]]

\* Model.create from the insert on, for the allocated record al.result and the
\* key the insert uses.
Inserted(al, m, r, id) ==
    IF InheritField \in Fields(al.models, m) /\ ~Has(ToInsert(al.models, al.records[r]), InheritField)
      THEN [al EXCEPT !.result = 0, !.thrown = "ValidationFailed"]
    ELSE IF Has(al.tables[m], id)
      THEN [al EXCEPT !.result = 0, !.thrown = "InsertFailed"]
    ELSE [al EXCEPT
            !.records = [@ EXCEPT ![r] =
                [@ EXCEPT !.data = Put(Current(al.records[r]), "id",
                                       IF IdOf(Current(al.records[r])) = 0 THEN id
                                       ELSE IdOf(Current(al.records[r]))),
                          !.changes = EmptyObj,
                          !.isDirty = FALSE,
                          !.flushed = TRUE]],
            !.tables = [@ EXCEPT ![m] =
                           Put(@, id, Put(ToInsert(al.models, al.records[r]), "id", id))],
            !.models = [n \in Models |->
                          IF n = Inherits(m) THEN [@[n] EXCEPT !.entities = Put(@, id, r)]
                          ELSE @[n]],
            !.inserts = Append(@, [table |-> m, id |-> id]),
            !.result = r]

\* Model.create once the record has been allocated.
Insert(al, m) ==
    Inserted(al, m, al.result,
             IF IdOf(ToInsert(al.models, al.records[al.result])) # 0
               THEN IdOf(ToInsert(al.models, al.records[al.result]))
               ELSE NextId(al.tables[m]))

\* A create that leaves the child's data without the key of the parent row.
CreateHereOwnKey(up, m, data) ==
    IF up.thrown # None THEN up
    ELSE Insert(AllocateHere(up, m, data), m)

\* Model.create once the parent row, if any, has been created (up.result).
CreateHere(up, m, data) ==
    IF up.thrown # None THEN up
    ELSE Insert(AllocateHere(up, m,
                             IF Inherits(m) # None
                               THEN Put(data, "id", IdOf(Current(up.records[up.result])))
                               ELSE data),
                m)

\* Model.create, run to completion; st.thrown names the error when it rejects.
RECURSIVE Create(_, _, _)
Create(st, m, data) ==
    CreateHere(IF Inherits(m) # None
                 THEN Create([st EXCEPT !.models = ModelInit(@, m)], Inherits(m),
                             Put(data, InheritField, m))
                 ELSE [st EXCEPT !.models = ModelInit(@, m)],
               m, data)

MaxKey == 1

MaxRecs == 3

Payloads ==
    { EmptyObj,
      [title |-> "t1", _inherit |-> "ChildA"],
      [title |-> "t2", name |-> "n1", _inherit |-> "ChildB"] }

\* The data objects callers pass: with and without a primary key.
Inputs == Payloads \cup {Put(p, "id", k) : p \in Payloads, k \in 1..MaxKey}

NoCall ==
    [op |-> "none", model |-> None, data |-> EmptyObj, result |-> 0, thrown |-> None,
     prior |-> 0, heapBefore |-> 0, callee |-> None, allocateOnly |-> TRUE,
     inserts |-> <<>>]

\* The heap as the operators above take it; inserts lists the rows a call
\* inserted, in order.
Heap == [records |-> records, models |-> models, tables |-> tables, result |-> 0,
         thrown |-> None, inserts |-> <<>>]

\* What the identity map of model m held for the key of data before a call.
Prior(m, data) ==
    IF IdOf(data) # 0 /\ Has(models[m].entities, IdOf(data))
      THEN models[m].entities[IdOf(data)]
      ELSE 0

Fits(st) ==
    /\ Len(st.records) <= MaxRecs
    /\ \A m \in Models : DOMAIN st.tables[m] \subseteq 1..MaxKey

Called(op, m, data, st) ==
    [op |-> op, model |-> m, data |-> data, result |-> st.result, thrown |-> st.thrown,
     prior |-> Prior(m, data), heapBefore |-> Len(records),
     callee |-> IF last.callee \in {None, m} THEN m ELSE "several",
     allocateOnly |-> last.allocateOnly /\ op \in {"init", "allocate"},
     inserts |-> st.inserts]

\* The first use of a model (any call that runs _init).
Initialize(m) ==
    /\ ~models[m].cls_init
    /\ models' = ModelInit(models, m)
    /\ last' = Called("init", m, EmptyObj, Heap)
    /\ UNCHANGED <<records, tables, notIdentity>>

\* A call that ran on the heap and left it as st.
Ran(op, m, data, st) ==
    /\ records' = st.records
    /\ models' = st.models
    /\ tables' = st.tables
    /\ last' = Called(op, m, data, st)
    /\ UNCHANGED notIdentity

AllocateCall(m, data) ==
    /\ Fits(Allocate(Heap, m, data))
    /\ Ran("allocate", m, data, Allocate(Heap, m, data))

CreateCall(m, data) ==
    /\ Fits(Create(Heap, m, data))
    /\ Ran("create", m, data, Create(Heap, m, data))

IdentityNext ==
    \/ \E m \in Models : Initialize(m)
    \/ \E m \in Models, data \in Inputs : AllocateCall(m, data)
    \/ \E m \in Models, data \in Inputs : CreateCall(m, data)

HeapInit ==
    /\ records = <<>>
    /\ models = [m \in Models |-> NewModel]
    /\ tables = [m \in Models |-> EmptyObj]

IdInit == last = NoCall

(***************************************************************************)
(* Record.flush and Model.flush, each run to completion.                   *)
(***************************************************************************)
\* field.stored
Stored(f) == f # "note"

\* A value field.validate rejects.
Invalid == "invalid"

\* The stored fields of a record whose validation fails.
InvalidFields(ms, rec) ==
    {f \in (Fields(ms, rec.model) \cap DOMAIN Current(rec)) \ {"id"} :
        Stored(f) /\ Current(rec)[f] = Invalid}

\* The update payload: the stored columns with a pending change.
UpdateOf(ms, rec) ==
    [f \in {g \in Fields(ms, rec.model) \cap DOMAIN rec.changes : Stored(g)} |-> rec.changes[f]]

\* A flush that sends the UPDATE even when the payload is empty.
IssuesAlways(update) == TRUE

\* Object.keys(update).length > 0
Issues(update) == DOMAIN update # {}

\* "flush changes to record"
Reconciled(rec) ==
    [rec EXCEPT !.isDirty = FALSE, !.data = Current(rec), !.changes = EmptyObj,
                !.flushed = TRUE]

\* The UPDATE ... WHERE id = <id> on the table of a model.
Updated(tbls, m, id, update) ==
    IF Has(tbls[m], id) THEN [tbls EXCEPT ![m][id] = Spread(@, update)] ELSE tbls

UpdateOp(rec, ok) == [model |-> rec.model, id |-> IdOf(Current(rec)), ok |-> ok]

\* Record.flush after the flush of the parent: the body guarded by _isDirty.
\* `failing` names the table whose UPDATE the storage rejects (None: no table).
FlushOwn(up, ms, r, failing) ==
    IF ~up.records[r].isDirty THEN up
    ELSE IF InvalidFields(ms, up.records[r]) # {}
      THEN [up EXCEPT !.records = [@ EXCEPT ![r].isDirty = FALSE],
                      !.thrown = "ValidationFailed"]
    ELSE IF Issues(UpdateOf(ms, up.records[r])) /\ failing = up.records[r].model
      THEN [up EXCEPT !.records = [@ EXCEPT ![r].isDirty = FALSE],
                      !.ops = Append(@, UpdateOp(up.records[r], FALSE)),
                      !.thrown = "UpdateFailed"]
    ELSE [up EXCEPT
            !.records = [@ EXCEPT ![r] = Reconciled(@)],
            !.ops = IF Issues(UpdateOf(ms, up.records[r]))
                      THEN Append(@, UpdateOp(up.records[r], TRUE)) ELSE @,
            !.tables = IF Issues(UpdateOf(ms, up.records[r]))
                         THEN Updated(@, up.records[r].model, IdOf(Current(up.records[r])),
                                      UpdateOf(ms, up.records[r]))
                         ELSE @]

\* The rest of Record.flush once the parent's flush has settled.
FlushAfterParent(up, ms, r, failing) ==
    IF up.thrown # None THEN up ELSE FlushOwn(up, ms, r, failing)

\* Record.flush
RECURSIVE FlushRecord(_, _, _, _)
FlushRecord(st, ms, r, failing) ==
    FlushAfterParent(IF st.records[r].parent # 0
                       THEN FlushRecord(st, ms, st.records[r].parent, failing)
                       ELSE st,
                     ms, r, failing)

\* One turn of the loop of Model.flush.
FlushEntity(st, ms, r, failing) ==
    IF st.thrown # None \/ ~st.records[r].isDirty THEN st
    ELSE FlushRecord(st, ms, r, failing)

\* Model.flush over the entities whose keys are in `keys`.
RECURSIVE FlushEntities(_, _, _, _, _)
FlushEntities(st, ms, m, keys, failing) ==
    IF keys = {} THEN st
    ELSE FlushEntities(FlushEntity(st, ms, ms[m].entities[Min(keys)], failing),
                       ms, m, keys \ {Min(keys)}, failing)

\* Model.flush
ModelFlush(st, ms, m, failing) == FlushEntities(st, ms, m, DOMAIN ms[m].entities, failing)

\* The records the flushes work on: a Base record (1) and a ChildA record (3)
\* with its Base parent (2), as allocate builds them from their rows.
Loaded ==
    Allocate(Allocate([records |-> <<>>, models |-> [m \in Models |-> NewModel],
                       tables |-> [m \in Models |-> EmptyObj], result |-> 0, thrown |-> None],
                      "Base", [id |-> 1, title |-> "t1"]),
             "ChildA", [id |-> 2, title |-> "t1", name |-> "n1"])

\* The pending changes assignments may have left on a record of a model.
PendingChoices(m) ==
    IF m = "Base"
      THEN { EmptyObj, [title |-> "t2"], [title |-> Invalid], [note |-> "x"],
             [title |-> "t2", note |-> "x"] }
      ELSE { EmptyObj, [name |-> "n2"] }

\* A loaded record on which assignments left the pending changes c.
WithPending(rec, c) == [rec EXCEPT !.changes = c, !.isDirty = (c # EmptyObj)]

RecordIds == 1..Len(Loaded.records)

MaxCalls == 3

\* The state a flush call starts from.
FlushHeap == [records |-> records, tables |-> tables, ops |-> <<>>, thrown |-> None]

\* The entry of `calls` for a call that left the heap as st.
Call(kind, r, m, st) ==
    [kind |-> kind, target |-> r, model |-> m, ops |-> st.ops, thrown |-> st.thrown,
     before |-> records]

\* await record.flush()
RecordFlush(r, failing) ==
    /\ Len(calls) < MaxCalls
    /\ records' = FlushRecord(FlushHeap, models, r, failing).records
    /\ tables' = FlushRecord(FlushHeap, models, r, failing).tables
    /\ calls' = Append(calls, Call("record", r, records[r].model,
                                   FlushRecord(FlushHeap, models, r, failing)))
    /\ UNCHANGED notFlush

\* await Model.flush()
ModelFlushCall(m, failing) ==
    /\ Len(calls) < MaxCalls
    /\ records' = ModelFlush(FlushHeap, models, m, failing).records
    /\ tables' = ModelFlush(FlushHeap, models, m, failing).tables
    /\ calls' = Append(calls, Call("model", 0, m, ModelFlush(FlushHeap, models, m, failing)))
    /\ UNCHANGED notFlush

FlushNext ==
    \/ \E r \in RecordIds, failing \in Models \cup {None} : RecordFlush(r, failing)
    \/ \E m \in Models, failing \in Models \cup {None} : ModelFlushCall(m, failing)

FlushHeapInit ==
    /\ records \in {[i \in RecordIds |-> WithPending(Loaded.records[i], c[i])] :
                      c \in {d \in [RecordIds -> UNION {PendingChoices(m) : m \in Models}] :
                               \A i \in RecordIds :
                                   d[i] \in PendingChoices(Loaded.records[i].model)}}
    /\ models = Loaded.models
    /\ tables = [m \in Models |->
                   IF m = "Base"
                     THEN (1 :> [id |-> 1, title |-> "t1"])
                            @@ (2 :> [id |-> 2, title |-> "t1", _inherit |-> "ChildA"])
                   ELSE IF m = "ChildA" THEN (2 :> [id |-> 2, name |-> "n1"])
                   ELSE EmptyObj]

FlushInit == calls = <<>>

(***************************************************************************)
(* Parametrized scopes: a scope declared as a function, requested by name  *)
(* or as { name: args }.  JavaScript values are [t, s, items]: the type,   *)
(* the printed scalar and, for an array, its elements.                     *)
(***************************************************************************)
Num(s) == [t |-> "number", s |-> s, items |-> <<>>]
Str(s) == [t |-> "string", s |-> s, items |-> <<>>]
Bool(s) == [t |-> "boolean", s |-> s, items |-> <<>>]
Arr(items) == [t |-> "array", s |-> "", items |-> items]

\* ToBoolean(v) = false.
Falsy(v) ==
    \/ v.t = "number" /\ v.s = "0"
    \/ v.t = "string" /\ v.s = ""
    \/ v.t = "boolean" /\ v.s = "false"

\* The characters a string iterates over.
Chars(s) == IF s = "ab" THEN <<Str("a"), Str("b")>> ELSE <<>>

\* What the compiled code is run as: `f(qb, ...args)` as it stands, or
\* lowered to f.apply(void 0, __spreadArray([qb], args, false)).
Targets == {"es2015", "es5"}

\* `...args` in an argument list: the elements of an array, the characters
\* of a string; a value that is not iterable throws a TypeError, and the
\* lowered form copies nothing from it.
SpreadArgs(args, target) ==
    IF args.t = "array" THEN [ok |-> TRUE, items |-> args.items]
    ELSE IF args.t = "string" THEN [ok |-> TRUE, items |-> Chars(args.s)]
    ELSE IF target = "es5" THEN [ok |-> TRUE, items |-> <<>>]
    ELSE [ok |-> FALSE, items |-> <<>>]

\* The scopes of the model: two functions with default parameters, a
\* function that mutates the query and returns it, and an options object.
ParamScopes ==
    [minViews |-> [fn |-> "minViews"],
     between |-> [fn |-> "between"],
     mutating |-> [fn |-> "mutating"],
     published |-> [where |-> [preds |-> {<<"published", "true">>}], limit |-> 10]]

ParamDefaults(fn) ==
    IF fn = "minViews" THEN <<Num("50")>>
    ELSE IF fn = "between" THEN <<Num("0"), Num("9")>>
    ELSE <<>>

\* The value a parameter is bound to: the argument at its position, or its
\* default when the call has no argument there.
Param(fn, received, i) ==
    IF i <= Len(received) THEN received[i] ELSE ParamDefaults(fn)[i]

\* definition(queryBuilder, ...args): what the function returns.
CallScope(fn, received) ==
    IF fn = "minViews"
      THEN [where |-> [preds |-> {<<"views.gte", Param(fn, received, 1).s>>}]]
    ELSE IF fn = "between"
      THEN [where |-> [preds |-> {<<"views.gte", Param(fn, received, 1).s>>,
                                   <<"views.lte", Param(fn, received, 2).s>>}],
            limit |-> 3]
    ELSE [queryBuilder |-> TRUE]

ExtractOptionsFromRequest == EmptyObj

NormalizeScopeDefinition(definition, received) ==
    IF ~Has(definition, "fn") THEN definition
    ELSE IF Has(CallScope(definition.fn, received), "queryBuilder")
      THEN ExtractOptionsFromRequest
    ELSE CallScope(definition.fn, received)

\* A scope request: the string `name`, or the object { name: args }.
ByName(name) == [form |-> "string", name |-> name, args |-> Arr(<<>>)]
WithArgs(name, args) == [form |-> "object", name |-> name, args |-> args]

\* args = scopeReq[scopeName] || []
ArgsOf(scopeReq) ==
    IF scopeReq.form = "string" \/ Falsy(scopeReq.args) THEN Arr(<<>>)
    ELSE scopeReq.args

ParamError(kind, name, invoked) ==
    [ok |-> FALSE, kind |-> kind, scope |-> name, model |-> ModelName,
     opts |-> EmptyObj, invoked |-> invoked]

\* The applyScopes loop over requests of both forms.  `invoked` lists the
\* calls made to scope functions: the name and the arguments received
\* after the query context.
RECURSIVE ApplyRequested(_, _, _, _, _)
ApplyRequested(scopes, merged, scopeRequests, target, invoked) ==
    IF scopeRequests = <<>>
      THEN [ok |-> TRUE, kind |-> None, scope |-> None, model |-> ModelName,
            opts |-> merged, invoked |-> invoked]
    ELSE IF ~Has(scopes, Head(scopeRequests).name)
      THEN ParamError("ScopeNotDefined", Head(scopeRequests).name, invoked)
    ELSE IF ~Has(scopes[Head(scopeRequests).name], "fn")
      THEN ApplyRequested(scopes,
                          MergeOptions(merged, scopes[Head(scopeRequests).name]),
                          Tail(scopeRequests), target, invoked)
    ELSE IF ~SpreadArgs(ArgsOf(Head(scopeRequests)), target).ok
      THEN ParamError("TypeError", Head(scopeRequests).name, invoked)
    ELSE ApplyRequested(scopes,
           MergeOptions(merged,
               NormalizeScopeDefinition(scopes[Head(scopeRequests).name],
                   SpreadArgs(ArgsOf(Head(scopeRequests)), target).items)),
           Tail(scopeRequests), target,
           Append(invoked,
                  [name |-> Head(scopeRequests).name,
                   received |-> SpreadArgs(ArgsOf(Head(scopeRequests)), target).items]))

ArgChoices ==
    {Arr(<<>>), Arr(<<Num("7")>>), Arr(<<Num("7"), Num("3")>>),
     Num("100"), Num("0"), Str("ab"), Bool("true")}

ParamNames == {"minViews", "between", "mutating", "published"}

ParamRequests ==
    {ByName(n) : n \in ParamNames} \cup
    {WithArgs(n, a) : n \in {"minViews", "between", "published"}, a \in ArgChoices}

MaxParamRequests == 2

ParamRequestLists == SeqsUpTo(ParamRequests, MaxParamRequests) \ {<<>>}

NoParamRequest == [kind |-> None]

\* Model.scope(...scopeRequests) on the model with ParamScopes.
ParamScope(scopeRequests) ==
    /\ req = NoParamRequest
    /\ req' = [kind |-> "scope", scopeRequests |-> scopeRequests,
               scopesApplied |-> FALSE,
               resolution |-> ParamError(None, None, <<>>)]
    /\ UNCHANGED <<cfg, thrown, notScope>>

\* The first await of the request: Request._applyScopes.
ParamThen ==
    /\ req.kind = "scope"
    /\ ~req.scopesApplied
    /\ req' = [req EXCEPT !.scopesApplied = TRUE,
                          !.resolution = ApplyRequested(cfg.scopes, EmptyObj,
                                             req.scopeRequests, cfg.target, <<>>)]
    /\ UNCHANGED <<cfg, thrown, notScope>>

ParamRelease ==
    /\ req.kind = "scope"
    /\ req.scopesApplied
    /\ req' = NoParamRequest
    /\ UNCHANGED <<cfg, thrown, notScope>>

ParamNext ==
    \/ \E scopeRequests \in ParamRequestLists : ParamScope(scopeRequests)
    \/ ParamThen
    \/ ParamRelease

ParamInit ==
    /\ cfg \in {[scopes |-> ParamScopes, default |-> NoDefault, builder |-> TRUE,
                 registered |-> 1, target |-> t] : t \in Targets}
    /\ req = NoParamRequest
    /\ thrown = NoThrow

(***************************************************************************)
(* Request-level caching: the in-memory cache adapter, the invalidation    *)
(* marker of a model and the execution of a Request, one await at a time.  *)
(* Time is Date.now() in clock ticks; a result is named by the tick at     *)
(* which storage answered.                                                 *)
(***************************************************************************)
TicksPerSecond == 1

MaxNow == 3

MaxPool == 2

MaxThens == 2

\* invalidateCache keeps its marker for a year (in seconds).
MarkerTTL == 31536000

Remove(obj, k) == [x \in (DOMAIN obj) \ {k} |-> obj[x]]

NoEntry == [value |-> 0, expires |-> 0, storedAt |-> 0]

\* InMemoryCacheAdapter.get(key, evictTimestamp) at time t; evict = 0 stands
\* for no timestamp.  The answer is the entry found and the store it leaves.
CacheGet(c, key, t, evict) ==
    IF ~Has(c, key) THEN [hit |-> FALSE, entry |-> NoEntry, cache |-> c]
    ELSE IF c[key].expires < t
      THEN [hit |-> FALSE, entry |-> NoEntry, cache |-> Remove(c, key)]
    ELSE IF evict # 0 /\ c[key].expires <= evict
      THEN [hit |-> FALSE, entry |-> NoEntry, cache |-> Remove(c, key)]
    ELSE [hit |-> TRUE, entry |-> c[key], cache |-> c]

\* InMemoryCacheAdapter.set(key, value, ttl) at time t.  storedAt is not a
\* field of the entry: it records when the entry was written.
CacheSet(c, key, value, ttl, t) ==
    Put(c, key, [value |-> value, expires |-> t + ttl * TicksPerSecond, storedAt |-> t])

\* Model.cache: the cache of the repository when the model has a positive TTL.
ModelCaches(m) == m.cacheTTL > 0

MarkerKey == <<"$" \o ModelName>>

\* Model.invalidateCache at time t: the model and the store it leaves.
InvalidateCache(m, c, t) ==
    [model |-> [m EXCEPT !.cacheInvalidateMs = t],
     cache |-> IF ModelCaches(m) THEN CacheSet(c, MarkerKey, t, MarkerTTL, t) ELSE c]

\* Request._getRequestKey: the model name and the serialized statements.
RequestKey(r) == <<ModelName>> \o r.statements

HasColumns(statements) ==
    \E i \in 1..Len(statements) : statements[i].grouping = "columns"

\* Request._ensureDefaultIdSelect: the statements of the query builder after it.
EnsureDefaultIdSelect(r, m) ==
    IF HasColumns(r.statements) THEN r.statements
    ELSE Append(r.statements,
                [grouping |-> "columns", value |-> IF ModelCaches(m) THEN "id" ELSE "all"])

\* Request._applyScopes as far as caching goes: a cache option of the merged
\* scopes becomes the TTL of the query, once.
ScopesApplied(r) ==
    IF r.scopesApplied THEN r
    ELSE [r EXCEPT !.scopesApplied = TRUE,
                   !.ttl = IF r.scopeCache # {} THEN r.scopeCache ELSE @]

\* The TTL of a query: {} when the query did not opt into caching.
Opted(r) == r.ttl # {}

TtlOf(r) == CHOOSE n \in r.ttl : TRUE

\* const modelEvictTs = this.model._cacheInvalidateMs || cache.get('$' + name) || null
ModelEvictTs(m, c, t) ==
    IF m.cacheInvalidateMs # 0 THEN m.cacheInvalidateMs
    ELSE CacheGet(c, MarkerKey, t, 0).entry.value

\* The lookup of Request.then for the request r whose scopes are applied.
Lookup(r, m, c, t) ==
    CacheGet(CacheGet(c, MarkerKey, t, 0).cache, RequestKey(r), t, ModelEvictTs(m, c, t))

\* Model.query().where(...) with or without select(...), cache(ttl) and a
\* scope that carries a cache option.
NewCacheRequest(columns, ttl, scopeCache) ==
    [statements |-> <<[grouping |-> "where", value |-> "active"]>>
                      \o (IF columns THEN <<[grouping |-> "columns", value |-> "title"]>>
                          ELSE <<>>),
     built |-> IF columns THEN "where+select" ELSE "where",
     ttl |-> ttl, called |-> ttl, scopeCache |-> scopeCache, scopesApplied |-> FALSE,
     thens |-> 0, firstThen |-> 0, executions |-> 0, pending |-> 0, outcomes |-> <<>>, stored |-> <<>>]

CacheChoices == {<<{}, {}>>, <<{0}, {}>>, <<{2}, {}>>, <<{}, {2}>>}
CacheQuery(columns, choice) ==
    /\ Len(pool) < MaxPool
    /\ pool' = Append(pool, NewCacheRequest(columns, choice[1], choice[2]))
    /\ UNCHANGED <<cache, now, cmodel, notCache>>

\* Request.then up to the call of queryBuilder.then, when the cache answers.
ThenHit(i, r, found) ==
    /\ found.hit
    /\ cache' = found.cache
    /\ pool' = [pool EXCEPT ![i] =
                  [r EXCEPT !.thens = @ + 1,
                            !.firstThen = IF r.thens = 0 THEN now ELSE @,
                            !.outcomes = Append(@, [source |-> "cache",
                                                    value |-> found.entry.value,
                                                    at |-> now,
                                                    storedAt |-> found.entry.storedAt,
                                                    marker |-> cmodel.cacheInvalidateMs])]]

\* Request.then up to the call of queryBuilder.then, which starts the query.
ThenMiss(i, r, c) ==
    /\ cache' = c
    /\ pool' = [pool EXCEPT ![i] =
                  [r EXCEPT !.thens = @ + 1,
                            !.firstThen = IF r.thens = 0 THEN now ELSE @,
                            !.statements = EnsureDefaultIdSelect(r, cmodel),
                            !.executions = @ + 1,
                            !.pending = @ + 1]]

\* Request.then (an await, a then or a catch) on the i-th request.
CacheThen(i) ==
    /\ i <= Len(pool)
    /\ pool[i].thens < MaxThens
    /\ IF ModelCaches(cmodel) /\ Opted(ScopesApplied(pool[i]))
         THEN IF Lookup(ScopesApplied(pool[i]), cmodel, cache, now).hit
                THEN ThenHit(i, ScopesApplied(pool[i]),
                             Lookup(ScopesApplied(pool[i]), cmodel, cache, now))
                ELSE ThenMiss(i, ScopesApplied(pool[i]),
                              Lookup(ScopesApplied(pool[i]), cmodel, cache, now).cache)
         ELSE ThenMiss(i, ScopesApplied(pool[i]), cache)
    /\ UNCHANGED <<now, cmodel, notCache>>

\* The callback of queryBuilder.then: storage has answered a query that the
\* i-th request started.
CacheResolve(i) ==
    /\ i <= Len(pool)
    /\ pool[i].pending > 0
    /\ cache' = IF ModelCaches(cmodel) /\ Opted(pool[i])
                  THEN CacheSet(cache, RequestKey(pool[i]), now,
                                Max({1, TtlOf(pool[i])}), now)
                  ELSE cache
    /\ pool' = [pool EXCEPT ![i] =
                  [@ EXCEPT !.pending = @ - 1,
                            !.outcomes = Append(@, [source |-> "storage", value |-> now,
                                                    at |-> now, storedAt |-> now,
                                                    marker |-> cmodel.cacheInvalidateMs]),
                            !.stored = IF ModelCaches(cmodel) /\ Opted(pool[i])
                                         THEN Append(@, [at |-> now,
                                                         expires |-> now + Max({1, TtlOf(pool[i])})
                                                                           * TicksPerSecond,
                                                         key |-> RequestKey(pool[i])])
                                         ELSE @]]
    /\ UNCHANGED <<now, cmodel, notCache>>

\* Model.invalidateCache()
Invalidate ==
    /\ cmodel.cacheInvalidateMs < now
    /\ cmodel' = InvalidateCache(cmodel, cache, now).model
    /\ cache' = InvalidateCache(cmodel, cache, now).cache
    /\ UNCHANGED <<now, pool, notCache>>

Tick ==
    /\ now < MaxNow
    /\ now' = now + 1
    /\ UNCHANGED <<cache, cmodel, pool, notCache>>

CacheNext ==
    \/ \E columns \in BOOLEAN, choice \in CacheChoices : CacheQuery(columns, choice)
    \/ \E i \in 1..MaxPool : CacheThen(i)
    \/ \E i \in 1..MaxPool : CacheResolve(i)
    \/ Invalidate
    \/ Tick

\* No request has been built and the model does not cache.
CacheOff ==
    /\ cache = EmptyObj
    /\ now = 1
    /\ cmodel = [cacheTTL |-> 0, cacheInvalidateMs |-> 0]
    /\ pool = <<>>

\* A model with `static cache = true` (300 seconds) or without cache.
CacheInit ==
    /\ cache = EmptyObj
    /\ now = 1
    /\ cmodel \in {[cacheTTL |-> ttl, cacheInvalidateMs |-> 0] : ttl \in {0, 300}}
    /\ pool = <<>>

(***************************************************************************)
(* Record.write, run to completion on the loaded records.                  *)
(***************************************************************************)
\* record[key] = value through the accessor of a field: the value becomes a
\* pending change and the record is dirty.
SetFields(rec, values) ==
    [rec EXCEPT !.changes = Spread(@, values),
                !.isDirty = @ \/ DOMAIN values # {}]

\* A write that leaves the keys it assigned in data.
RemainKeysAll(ms, m, data) == DOMAIN data

\* The keys left in data after the loop of write: those that are no field of
\* the model.
RemainKeys(ms, m, data) == (DOMAIN data) \ Fields(ms, m)

\* The loop of Record.write: the keys that are fields of the record's model
\* are assigned and deleted from data.
WriteAssigned(st, ms, r) ==
    [st EXCEPT
       !.records = [@ EXCEPT ![r] =
           SetFields(@, [k \in (DOMAIN st.data)
                                 \ RemainKeys(ms, st.records[r].model, st.data) |->
                           st.data[k]])],
       !.data = [k \in RemainKeys(ms, st.records[r].model, st.data) |-> st.data[k]]]

\* The end of Record.write, once the parent's write (if any) has settled.
WriteChecked(st, ms, r, failing) ==
    IF st.thrown # None THEN [st EXCEPT !.stage = "parent"]
    ELSE IF DOMAIN st.data # {}
      THEN [st EXCEPT !.thrown = "NoSuchField", !.unknown = DOMAIN st.data,
                      !.unknownOn = st.records[r].model, !.stage = "unknown"]
    ELSE [FlushRecord(st, ms, r, failing) EXCEPT !.flushes = Append(@, r),
                                                  !.stage = "flush"]

\* Record.write(data) for a data object.
RECURSIVE WriteData(_, _, _, _)
WriteData(st, ms, r, failing) ==
    WriteChecked(IF st.records[r].parent # 0 /\ DOMAIN WriteAssigned(st, ms, r).data # {}
                   THEN WriteData(WriteAssigned(st, ms, r), ms, st.records[r].parent, failing)
                   ELSE WriteAssigned(st, ms, r),
                 ms, r, failing)

\* Record.write; `given` is false for write().
Write(st, ms, r, given, failing) ==
    IF given THEN WriteData(st, ms, r, failing)
    ELSE [FlushRecord(st, ms, r, failing) EXCEPT !.flushes = Append(@, r),
                                                  !.stage = "flush"]

\* The data objects callers write: fields of the child, of the parent, of
\* neither, and none.
WriteInputs ==
    { EmptyObj, [title |-> "t2"], [name |-> "n2"], [title |-> "t3", name |-> "n3"],
      [title |-> Invalid], [bogus |-> "x"], [title |-> "t2", bogus |-> "x"],
      [name |-> "n2", bogus |-> "x", other |-> "y"] }

MaxWrites == 1

WriteHeap(data) ==
    [records |-> records, tables |-> tables, ops |-> <<>>, thrown |-> None,
     data |-> data, unknown |-> {}, unknownOn |-> None, flushes |-> <<>>,
     stage |-> "start"]

\* The entry of `calls` for a write that left the heap as st.
WriteCall(r, given, data, failing, st) ==
    [kind |-> "write", target |-> r, model |-> records[r].model, given |-> given,
     data |-> data, failing |-> failing, ops |-> st.ops, thrown |-> st.thrown,
     unknown |-> st.unknown, unknownOn |-> st.unknownOn, flushes |-> st.flushes,
     stage |-> st.stage, before |-> records]

\* await record.write(data)
RecordWrite(r, given, data, failing) ==
    /\ Len(calls) < MaxWrites
    /\ given \/ data = EmptyObj
    /\ records' = Write(WriteHeap(data), models, r, given, failing).records
    /\ tables' = Write(WriteHeap(data), models, r, given, failing).tables
    /\ calls' = Append(calls, WriteCall(r, given, data, failing,
                                        Write(WriteHeap(data), models, r, given, failing)))
    /\ UNCHANGED notFlush

WriteNext ==
    \E r \in RecordIds, given \in BOOLEAN, data \in WriteInputs,
       failing \in {None, "Base", "ChildA"} :
        RecordWrite(r, given, data, failing)

(***************************************************************************)
(* Repository.transaction: the transaction repository txRepo with one      *)
(* model, the work done on it, and the flush, commit and cache writes that *)
(* follow.                                                                 *)
(***************************************************************************)
MaxTxOps == 4

MaxTxKey == 3

\* The primary keys of the rows in storage before the transaction begins.
StoredKeys == {1}

\* No transaction yet.  recs is the heap of the records of txRepo (by primary
\* key), entities the identity map of its model in insertion order, log the
\* calls made so far; raised is the error that occurred, result what work
\* resolved with, returned / thrown how the call of transaction ended.
TxIdle ==
    [pc |-> "idle", recs |-> EmptyObj, entities |-> <<>>, ops |-> 0, log |-> <<>>,
     result |-> None, raised |-> None, returned |-> None, thrown |-> None]

Event(ev, key) == [ev |-> ev, key |-> key]

\* model.name + ':' + record.id
EntryKey(key) == <<ModelName, key>>

\* The key the storage gives to the next inserted row.
NextKey(t) == Max(StoredKeys \cup DOMAIN t.recs) + 1

\* Model.create writes the cache entry itself only outside a transaction.
CreateCaches(m, transactional) == ModelCaches(m) /\ ~transactional

\* The record Model.create resolves with.
CreatedRecord(m, transactional) ==
    [created |-> TRUE, isDirty |-> FALSE, flushed |-> ~CreateCaches(m, transactional),
     data |-> 1, pending |-> 1]

\* The record allocate builds for a row read from storage.
LoadedRecord ==
    [created |-> FALSE, isDirty |-> FALSE, flushed |-> FALSE, data |-> 1, pending |-> 1]

\* Model.allocate registers the record under its key when the data has one.
RegisteredTx(entities, data, key) ==
    IF Has(data, "id") THEN Append(entities, key) ELSE entities

\* Model.create(data) on txRepo: data has no key yet when allocate runs unless
\* the caller gave one.
TxCreated(t, m, data) ==
    [t EXCEPT !.recs = Put(@, NextKey(t), CreatedRecord(m, TRUE)),
              !.entities = RegisteredTx(@, data, NextKey(t)),
              !.ops = @ + 1]

\* A catch block that rethrows without rolling back.
CaughtNoRollback(t) == [t EXCEPT !.thrown = t.raised, !.pc = "thrown"]

\* catch (error) { await trx.rollback(); throw error; }
Caught(t) ==
    [t EXCEPT !.log = Append(@, Event("rollback", 0)), !.thrown = t.raised,
              !.pc = "thrown"]

\* Record.flush on a record of txRepo; st is [t, c]: the transaction and the
\* cache store.
FlushedRecord(st, m, key, t0) ==
    IF ~st.t.recs[key].isDirty THEN st
    ELSE [t |-> [st.t EXCEPT
                   !.recs = Put(@, key, [st.t.recs[key] EXCEPT
                                           !.isDirty = FALSE, !.flushed = TRUE,
                                           !.data = st.t.recs[key].pending]),
                   !.log = IF ModelCaches(m) THEN Append(@, Event("set", key)) ELSE @],
          c |-> IF ModelCaches(m)
                  THEN CacheSet(st.c, EntryKey(key), st.t.recs[key].pending, m.cacheTTL, t0)
                  ELSE st.c]

\* Model.flush: the dirty records of the identity map are flushed in turn; the
\* update of the record with key failAt (0: none) is rejected by the storage.
RECURSIVE FlushTxEntities(_, _, _, _, _)
FlushTxEntities(st, m, i, failAt, t0) ==
    IF i > Len(st.t.entities) THEN st
    ELSE IF st.t.entities[i] = failAt /\ st.t.recs[failAt].isDirty
      THEN [st EXCEPT !.t = [@ EXCEPT !.raised = "FlushError",
                                      !.recs = Put(@, failAt, [st.t.recs[failAt] EXCEPT
                                                                 !.isDirty = FALSE])]]
    ELSE FlushTxEntities(FlushedRecord(st, m, st.t.entities[i], t0), m, i + 1, failAt, t0)

\* The loop after the commit: the flushed records of the identity map are
\* written to the cache.
RECURSIVE CacheFlushed(_, _, _, _)
CacheFlushed(st, m, i, t0) ==
    IF ~ModelCaches(m) \/ i > Len(st.t.entities) THEN st
    ELSE IF ~st.t.recs[st.t.entities[i]].flushed THEN CacheFlushed(st, m, i + 1, t0)
    ELSE CacheFlushed(
           [t |-> [st.t EXCEPT !.log = Append(@, Event("set", st.t.entities[i]))],
            c |-> CacheSet(st.c, EntryKey(st.t.entities[i]),
                           st.t.recs[st.t.entities[i]].data, m.cacheTTL, t0)],
           m, i + 1, t0)

\* The entities whose flush the storage can reject.
DirtyEntities(t) == {t.entities[i] : i \in {j \in DOMAIN t.entities : t.recs[t.entities[j]].isDirty}}

\* const trx = await this.cnx.transaction(config); txRepo is created with
\* empty models and work(txRepo) is called.
TxBegin ==
    /\ tx.pc = "idle"
    /\ tx' = [tx EXCEPT !.pc = "work"]
    /\ UNCHANGED <<cache, notTx>>

\* Inside work: await tx.get(Model).create(data)
TxCreate(data) ==
    /\ tx.pc = "work" /\ tx.ops < MaxTxOps
    /\ NextKey(tx) <= MaxTxKey
    /\ tx' = TxCreated(tx, cmodel, data)
    /\ UNCHANGED <<cache, notTx>>

\* Inside work: a row of the storage is read through txRepo.
TxLoad(key) ==
    /\ tx.pc = "work" /\ tx.ops < MaxTxOps
    /\ ~Has(tx.recs, key)
    /\ tx' = [tx EXCEPT !.recs = Put(@, key, LoadedRecord),
                        !.entities = RegisteredTx(@, [id |-> key], key),
                        !.ops = @ + 1]
    /\ UNCHANGED <<cache, notTx>>

\* Inside work: record.field = value
TxAssign(key) ==
    /\ tx.pc = "work" /\ tx.ops < MaxTxOps
    /\ Has(tx.recs, key)
    /\ tx' = [tx EXCEPT !.recs = Put(@, key, [tx.recs[key] EXCEPT
                                               !.isDirty = TRUE, !.pending = @ + 1]),
                        !.ops = @ + 1]
    /\ UNCHANGED <<cache, notTx>>

\* Inside work: await record.flush()
TxRecordFlush(key) ==
    /\ tx.pc = "work" /\ tx.ops < MaxTxOps
    /\ Has(tx.recs, key) /\ tx.recs[key].isDirty
    /\ tx' = [FlushedRecord([t |-> tx, c |-> cache], cmodel, key, now).t EXCEPT !.ops = @ + 1]
    /\ cache' = FlushedRecord([t |-> tx, c |-> cache], cmodel, key, now).c
    /\ UNCHANGED notTx

\* work resolves: result = await work(txRepo)
TxWorkResolve(value) ==
    /\ tx.pc = "work"
    /\ tx' = [tx EXCEPT !.result = value, !.log = Append(@, Event("resolve", 0)),
                        !.pc = "flush"]
    /\ UNCHANGED <<cache, notTx>>

\* work throws or rejects.
TxWorkThrow ==
    /\ tx.pc = "work"
    /\ tx' = [tx EXCEPT !.raised = "WorkError", !.pc = "caught"]
    /\ UNCHANGED <<cache, notTx>>

\* await txRepo.flush()
TxRepoFlush(failAt) ==
    /\ tx.pc = "flush"
    /\ failAt = 0 \/ failAt \in DirtyEntities(tx)
    /\ tx' = [FlushTxEntities([t |-> [tx EXCEPT !.log = Append(@, Event("flush", 0))],
                             c |-> cache], cmodel, 1, failAt, now).t
                EXCEPT !.pc = IF failAt = 0 THEN "commit" ELSE "caught"]
    /\ cache' = FlushTxEntities([t |-> [tx EXCEPT !.log = Append(@, Event("flush", 0))],
                               c |-> cache], cmodel, 1, failAt, now).c
    /\ UNCHANGED notTx

\* await trx.commit() rejects.
TxCommitFails ==
    /\ tx.pc = "commit"
    /\ tx' = [tx EXCEPT !.raised = "CommitError", !.pc = "caught"]
    /\ UNCHANGED <<cache, notTx>>

\* await trx.commit() resolves: the cache loop runs and transaction returns
\* result.
TxCommit ==
    /\ tx.pc = "commit"
    /\ tx' = [CacheFlushed([t |-> [tx EXCEPT !.log = Append(@, Event("commit", 0))],
                            c |-> cache], cmodel, 1, now).t
                EXCEPT !.returned = tx.result, !.pc = "returned"]
    /\ cache' = CacheFlushed([t |-> [tx EXCEPT !.log = Append(@, Event("commit", 0))],
                              c |-> cache], cmodel, 1, now).c
    /\ UNCHANGED notTx

\* The catch block of transaction.
TxRollback ==
    /\ tx.pc = "caught"
    /\ tx' = Caught(tx)
    /\ UNCHANGED <<cache, notTx>>

TxNext ==
    \/ TxBegin
    \/ \E data \in {EmptyObj, [id |-> 0]} : TxCreate(data)
    \/ \E key \in StoredKeys : TxLoad(key)
    \/ \E key \in 1..MaxTxKey : TxAssign(key)
    \/ \E key \in 1..MaxTxKey : TxRecordFlush(key)
    \/ \E value \in {"done", "undefined"} : TxWorkResolve(value)
    \/ TxWorkThrow
    \/ \E failAt \in 0..MaxTxKey : TxRepoFlush(failAt)
    \/ TxCommitFails
    \/ TxCommit
    \/ TxRollback

TxOff == tx = TxIdle

(***************************************************************************)
(* One transaction on a repository whose model caches or does not.         *)
(***************************************************************************)
InitTx == ScopeInit /\ CtxInit /\ HeapInit /\ IdInit /\ FlushInit /\ CacheInit /\ TxOff

SpecTx == InitTx /\ [][TxNext]_vars

(***************************************************************************)
(* Deferred hydration: records allocated from a primary key alone, and the *)
(* lookups that settle later.                                              *)
(***************************************************************************)
MaxLookups == 3

\* The rows in storage: Base has a row for key 1, nothing has a row for key 2.
HydrateRows == [id |-> 1, title |-> "t1"]

HydrateInputs == {[id |-> 1], [id |-> 2], [id |-> 2, title |-> "t2"]}

\* delete object[k]: removes an own property and nothing else.
DeleteProperty(rec, k) == IF Has(rec, k) THEN Remove(rec, k) ELSE rec

\* record[k] as a caller reads it: the accessor of the field, attached to the
\* class of the record, reads the pending change or the stored value; {} is
\* undefined.
ReadProperty(recs, ms, r, k) ==
    IF k \in Fields(ms, recs[r].model) /\ Has(Current(recs[r]), k)
      THEN {Current(recs[r])[k]}
      ELSE {}

\* The promise allocate stores in _isReady: lookup(id).then(...).catch(...).
\* Both handlers mark the record ready and return it; the second also deletes
\* the id of the instance.
LookupSettled(recs, r, outcome) ==
    IF outcome = "rejected"
      THEN [recs EXCEPT ![r] = DeleteProperty([@ EXCEPT !.isReady = "true"], "id")]
      ELSE [recs EXCEPT ![r].isReady = "true"]

\* Whether storage has the row lookup asks for.
Found(tbls, m, id) == Has(tbls[m], id)

\* The records a call of allocate left with a lookup in flight.
NewLookups(before, after) ==
    {r \in DOMAIN after : after[r].isReady = "pending" /\ r \notin DOMAIN before}

RECURSIVE LookupEntries(_, _)
LookupEntries(rs, recs) ==
    IF rs = {} THEN <<>>
    ELSE <<[kind |-> "lookup", target |-> Min(rs), id |-> IdOf(recs[Min(rs)].data),
            found |-> FALSE, lookup |-> None, promise |-> "pending", ready |-> FALSE,
            idAfter |-> {}]>>
         \o LookupEntries(rs \ {Min(rs)}, recs)

\* The lookups that have not settled.
InFlight == {i \in DOMAIN calls : calls[i].kind = "lookup" /\ calls[i].promise = "pending"}

\* model.allocate(data)
HydrateAllocate(m, data) ==
    /\ Fits(Allocate(Heap, m, data))
    /\ Len(calls) + Cardinality(NewLookups(records, Allocate(Heap, m, data).records)) <= MaxLookups
    /\ records' = Allocate(Heap, m, data).records
    /\ models' = Allocate(Heap, m, data).models
    /\ last' = Called("allocate", m, data, Allocate(Heap, m, data))
    /\ calls' = calls \o LookupEntries(NewLookups(records, Allocate(Heap, m, data).records),
                                       Allocate(Heap, m, data).records)
    /\ UNCHANGED <<tables, cfg, req, thrown, context, repoState, ctxLast, cacheVars>>

\* The lookup of calls[i] finds the row: the row is synced into the record of
\* the identity map and the promise runs its first handler.
LookupFinds(i) ==
    /\ i \in InFlight
    /\ Found(tables, records[calls[i].target].model, calls[i].id)
    /\ records' = LookupSettled(Sync(records, models, calls[i].target,
                                     tables[records[calls[i].target].model][calls[i].id]),
                                calls[i].target, "resolved")
    /\ calls' = [calls EXCEPT ![i] =
                   [@ EXCEPT !.found = TRUE, !.lookup = "resolved", !.promise = "resolved",
                             !.ready = records'[calls[i].target].isReady = "true",
                             !.idAfter = ReadProperty(records', models, calls[i].target, "id")]]
    /\ UNCHANGED <<models, tables, last, cfg, req, thrown, context, repoState, ctxLast, cacheVars>>

\* The lookup of calls[i] finds no row: it rejects, or it resolves without a
\* record for the key.
LookupMisses(i, outcome) ==
    /\ i \in InFlight
    /\ ~Found(tables, records[calls[i].target].model, calls[i].id)
    /\ records' = LookupSettled(records, calls[i].target, outcome)
    /\ calls' = [calls EXCEPT ![i] =
                   [@ EXCEPT !.found = FALSE, !.lookup = outcome, !.promise = "resolved",
                             !.ready = records'[calls[i].target].isReady = "true",
                             !.idAfter = ReadProperty(records', models, calls[i].target, "id")]]
    /\ UNCHANGED <<models, tables, last, cfg, req, thrown, context, repoState, ctxLast, cacheVars>>

HydrateNext ==
    \/ \E m \in {"Base", "ChildA"}, data \in HydrateInputs : HydrateAllocate(m, data)
    \/ \E i \in 1..MaxLookups : LookupFinds(i)
    \/ \E i \in 1..MaxLookups, outcome \in {"rejected", "resolved"} : LookupMisses(i, outcome)

HydrateInit ==
    /\ records = <<>>
    /\ models = [m \in Models |-> NewModel]
    /\ tables = [m \in Models |-> IF m = "Base" THEN Put(EmptyObj, 1, HydrateRows) ELSE EmptyObj]

(***************************************************************************)
(* allocate calls with a primary key and the lookups they start.           *)
(***************************************************************************)
InitHydrate == ScopeInit /\ CtxInit /\ HydrateInit /\ IdInit /\ FlushInit /\ CacheOff /\ TxOff

SpecHydrate == InitHydrate /\ [][HydrateNext]_vars

(***************************************************************************)
(* allocate with and without ignoreDiscriminator.                          *)
(***************************************************************************)
\* Model.allocate(data, true): no routing, the identity-map check comes next.
AllocateIgnoring(st, m, data) ==
    AllocateHere([st EXCEPT !.models = ModelInit(st.models, m)], m, data)

MaxRouteRecs == 2

RoutePayloads ==
    { [title |-> "t1"], [title |-> "t1", _inherit |-> ""],
      [title |-> "t1", _inherit |-> "ChildA"], [name |-> "n1", _inherit |-> "ChildB"] }

RouteInputs == RoutePayloads \cup {Put(p, "id", k) : p \in RoutePayloads, k \in 1..MaxKey}

\* model.allocate(data, ignoreDiscriminator)
RouteAllocate(m, data, ignore) ==
    /\ Len((IF ignore THEN AllocateIgnoring(Heap, m, data)
                      ELSE Allocate(Heap, m, data)).records) <= MaxRouteRecs
    /\ Ran(IF ignore THEN "allocateIgnoring" ELSE "allocate", m, data,
           IF ignore THEN AllocateIgnoring(Heap, m, data) ELSE Allocate(Heap, m, data))

RouteNext ==
    \/ \E m \in Models : Initialize(m)
    \/ \E m \in Models, data \in RouteInputs, ignore \in BOOLEAN : RouteAllocate(m, data, ignore)

InitRoute == ScopeInit /\ CtxInit /\ HeapInit /\ IdInit /\ FlushInit /\ CacheOff /\ TxOff

SpecRoute == InitRoute /\ [][RouteNext]_vars

(***************************************************************************)
(* Record.flush, Record.unlink and Model.create statement by statement:    *)
(* every hook, storage call and cache call is an event of the log, and the *)
(* call named by env.fail throws.                                          *)
(***************************************************************************)
\* Object.values(model.fields), in the order of declaration.
FieldSeq(ms, m) ==
    IF m = "Base"
      THEN <<"id", "title", "note">> \o (IF ms[m].refField THEN <<InheritField>> ELSE <<>>)
      ELSE <<"id", "name">>

Ev(ev, r, f) == [ev |-> ev, rec |-> r, field |-> f, data |-> EmptyObj]

\* One call of the code: it is logged, and it throws when env.fail names it.
Do(st, env, e) ==
    IF st.thrown # None THEN st
    ELSE [st EXCEPT !.log = Append(@, e),
                    !.thrown = IF env.fail = e.ev THEN e.ev ELSE None]

\* for (const field of Object.values(fields)) list.push(field.<hook>(record))
RECURSIVE StartHooks(_, _, _, _, _, _)
StartHooks(st, env, hook, r, fs, i) ==
    IF i > Len(fs) THEN st
    ELSE StartHooks(Do(st, env, Ev(hook, r, fs[i])), env, hook, r, fs, i + 1)

\* update[field.column] = <serialized value>
IntoUpdate(st, f) == IF st.thrown # None THEN st ELSE [st EXCEPT !.update = Append(@, f)]

\* The loop of flush that validates the stored fields and serializes those
\* with a pending change into the update.
RECURSIVE ConstructUpdate(_, _, _, _, _)
ConstructUpdate(st, env, r, fs, i) ==
    IF i > Len(fs) THEN st
    ELSE IF ~Stored(fs[i]) THEN ConstructUpdate(st, env, r, fs, i + 1)
    ELSE IF ~Has(st.records[r].changes, fs[i])
      THEN ConstructUpdate(Do(st, env, Ev("validate", r, fs[i])), env, r, fs, i + 1)
    ELSE ConstructUpdate(
           IntoUpdate(Do(Do(st, env, Ev("validate", r, fs[i])),
                         env, Ev("serialize", r, fs[i])), fs[i]),
           env, r, fs, i + 1)

\* this._isDirty = false, at the head of the guarded body of flush.
FlushBegun(st, r) ==
    [st EXCEPT !.records = [@ EXCEPT ![r].isDirty = FALSE], !.update = <<>>]

\* Record.flush up to the payload: the pre-hooks, then validation and
\* serialization.
FlushPrepared(st, ms, env, r) ==
    ConstructUpdate(
      Do(StartHooks(Do(Do(FlushBegun(st, r), env, Ev("pre_update", r, None)),
                       env, Ev("pre_validate", r, None)),
                    env, "field_pre_update", r, FieldSeq(ms, st.records[r].model), 1),
         env, Ev("await_field_pre_update", r, None)),
      env, r, FieldSeq(ms, st.records[r].model), 1)

\* The sequence fs as a set.
Range(fs) == {fs[i] : i \in DOMAIN fs}

\* await model.query().where({ id }).update(update), if the update has keys.
FlushSent(st, env, r) ==
    IF st.thrown # None \/ st.update = <<>> THEN st
    ELSE IF env.fail = "update" THEN Do(st, env, Ev("update", r, None))
    ELSE [Do(st, env, Ev("update", r, None)) EXCEPT
            !.tables = Updated(@, st.records[r].model, IdOf(Current(st.records[r])),
                               [f \in Range(st.update) |-> st.records[r].changes[f]])]

\* "flush changes to record"
FlushReconciled(st, r) ==
    IF st.thrown # None THEN st
    ELSE [st EXCEPT !.records = [@ EXCEPT ![r] = Reconciled(@)],
                    !.log = Append(@, Ev("reconcile", r, None))]

\* record.toRawJSON(): the value of every field of the model that has one.
ToRawJSON(ms, rec) ==
    [f \in Range(FieldSeq(ms, rec.model)) \cap DOMAIN Current(rec) |-> Current(rec)[f]]

\* "update cache": model.cache.set(name + ':' + id, this.toRawJSON(), ttl)
FlushCached(st, ms, env, r) ==
    IF st.thrown # None \/ ~env.cache THEN st
    ELSE [st EXCEPT !.log = Append(@, [Ev("cache_set", r, None) EXCEPT
                                         !.data = ToRawJSON(ms, st.records[r])])]

\* events.emit(...) and the invalidation of the marker, if configured.
FlushAnnounced(st, env, r) ==
    IF env.invalidation
      THEN Do(Do(st, env, Ev("emit", r, None)), env, Ev("invalidate", r, None))
      ELSE Do(st, env, Ev("emit", r, None))

\* "run post hooks": the field hooks of the keys of update, then post_update.
FlushPostHooks(st, env, r) ==
    Do(Do(StartHooks(st, env, "field_post_update", r, st.update, 1),
          env, Ev("await_field_post_update", r, None)),
       env, Ev("post_update", r, None))

\* A flush that writes the cache entry before it reconciles the record.
FlushBodyCacheFirst(st, ms, env, r) ==
    FlushAnnounced(
      FlushPostHooks(
        FlushReconciled(FlushCached(FlushSent(FlushPrepared(st, ms, env, r), env, r),
                                    ms, env, r), r),
        env, r),
      env, r)

\* The body of Record.flush guarded by _isDirty.
FlushBody(st, ms, env, r) ==
    FlushAnnounced(
      FlushPostHooks(
        FlushCached(FlushReconciled(FlushSent(FlushPrepared(st, ms, env, r), env, r), r),
                    ms, env, r),
        env, r),
      env, r)

\* Record.flush once the flush of the parent has settled.
FlushOwnSteps(up, ms, env, r) ==
    IF up.thrown # None \/ ~up.records[r].isDirty THEN up ELSE FlushBody(up, ms, env, r)

\* Record.flush
RECURSIVE FlushSteps(_, _, _, _)
FlushSteps(st, ms, env, r) ==
    FlushOwnSteps(IF st.records[r].parent # 0
                    THEN FlushSteps(st, ms, env, st.records[r].parent)
                    ELSE st,
                  ms, env, r)

\* What the model is configured with, and the call that throws.
Envs(fails) == [cache : BOOLEAN, invalidation : BOOLEAN, fail : fails]

FlushFails ==
    {None, "pre_update", "pre_validate", "field_pre_update", "await_field_pre_update",
     "validate", "serialize", "update", "field_post_update", "await_field_post_update",
     "post_update"}

MaxStepCalls == 1

StepHeap ==
    [records |-> records, tables |-> tables, log |-> <<>>, thrown |-> None,
     update |-> <<>>, models |-> models]

StepCall(kind, r, env, st) ==
    [kind |-> kind, target |-> r, env |-> env, log |-> st.log, thrown |-> st.thrown,
     before |-> records, modelsBefore |-> models]

\* The records whose chain of parents is attached to its models.
RECURSIVE Linked(_, _)
Linked(recs, r) ==
    /\ recs[r].model # None
    /\ recs[r].parent # 0 => Linked(recs, recs[r].parent)

\* await record.flush()
StepFlush(r, env) ==
    /\ Len(calls) < MaxStepCalls
    /\ Linked(records, r)
    /\ records' = FlushSteps(StepHeap, models, env, r).records
    /\ tables' = FlushSteps(StepHeap, models, env, r).tables
    /\ calls' = Append(calls, StepCall("flush", r, env, FlushSteps(StepHeap, models, env, r)))
    /\ UNCHANGED notFlush

\* this._model = null
Detached(st, r) == [st EXCEPT !.records = [@ EXCEPT ![r].model = None]]

\* await model.query().where({ id: this.id }).delete()
UnlinkDeleted(st, env, r, m) ==
    IF st.thrown # None \/ env.fail = "delete" THEN Do(st, env, Ev("delete", r, None))
    ELSE [Do(st, env, Ev("delete", r, None)) EXCEPT
            !.tables = [@ EXCEPT ![m] = IF Has(@, IdOf(Current(st.records[r])))
                                          THEN Remove(@, IdOf(Current(st.records[r])))
                                          ELSE @]]

\* Record.unlink up to the DELETE, for a record of model m.
UnlinkBegun(st, env, r, m) ==
    UnlinkDeleted(
      Do(StartHooks(Do(Do(Detached(st, r), env, Ev("pre_unlink", r, None)),
                       env, Ev("pre_validate", r, None)),
                    env, "field_pre_unlink", r, FieldSeq(st.models, m), 1),
         env, Ev("await_field_pre_unlink", r, None)),
      env, r, m)

\* model.cache.expire(key) and the invalidation of the marker, as configured.
UnlinkCacheCalls(st, env, r) ==
    IF st.thrown # None THEN st
    ELSE [st EXCEPT !.log = @ \o (IF env.cache THEN <<Ev("cache_expire", r, None)>> ELSE <<>>)
                              \o (IF env.invalidation THEN <<Ev("invalidate", r, None)>>
                                  ELSE <<>>)]

\* model.entities.delete(this.id)
Forgotten(st, r, m) ==
    IF st.thrown # None THEN st
    ELSE [st EXCEPT !.log = Append(@, Ev("entities_delete", r, None)),
                    !.models = [@ EXCEPT ![m].entities =
                                  IF Has(@, IdOf(Current(st.records[r])))
                                    THEN Remove(@, IdOf(Current(st.records[r])))
                                    ELSE @]]

\* Record.unlink after the unlink of the parent: "run post hooks" to the end.
UnlinkFinished(st, env, r, m) ==
    Forgotten(
      UnlinkCacheCalls(
        Do(Do(StartHooks(Do(st, env, Ev("post_unlink", r, None)),
                         env, "field_post_unlink", r, FieldSeq(st.models, m), 1),
              env, Ev("await_field_post_unlink", r, None)),
           env, Ev("emit", r, None)),
        env, r),
      r, m)

\* Record.unlink
RECURSIVE UnlinkSteps(_, _, _)
UnlinkSteps(st, env, r) ==
    IF st.thrown # None \/ st.records[r].model = None THEN st
    ELSE UnlinkFinished(
           IF st.records[r].parent # 0
             THEN UnlinkSteps(UnlinkBegun(st, env, r, st.records[r].model), env,
                              st.records[r].parent)
             ELSE UnlinkBegun(st, env, r, st.records[r].model),
           env, r, st.records[r].model)

UnlinkFails ==
    {None, "pre_unlink", "pre_validate", "field_pre_unlink", "await_field_pre_unlink",
     "delete", "post_unlink", "field_post_unlink", "await_field_post_unlink"}

\* The loop of create over the fields: the pre_create hook of the field is
\* started, and a stored field is validated and serialized.
RECURSIVE PrepareInsert(_, _, _, _, _)
PrepareInsert(st, env, r, fs, i) ==
    IF i > Len(fs) THEN st
    ELSE IF ~Stored(fs[i])
      THEN PrepareInsert(Do(st, env, Ev("field_pre_create", r, fs[i])), env, r, fs, i + 1)
    ELSE PrepareInsert(
           Do(Do(Do(st, env, Ev("field_pre_create", r, fs[i])),
                 env, Ev("validate", r, fs[i])),
              env, Ev("serialize", r, fs[i])),
           env, r, fs, i + 1)

\* "flush data to cache", outside a transaction.
CreateCached(st, env, r) ==
    IF st.thrown # None \/ ~env.cache THEN st
    ELSE [st EXCEPT !.log = Append(@, Ev("cache_set", r, None))]

\* Model.create of model m from "prepare data to insert" on; r is the record.
CreateOwnSteps(st, ms, env, m, r) ==
    FlushAnnounced(
      Do(Do(StartHooks(
                  CreateCached(
                    Do(Do(PrepareInsert(Do(Do(st, env, Ev("pre_create", r, None)),
                                           env, Ev("pre_validate", r, None)),
                                        env, r, FieldSeq(ms, m), 1),
                          env, Ev("await_field_pre_create", r, None)),
                       env, Ev("insert", r, None)),
                    env, r),
                  env, "field_post_create", r, FieldSeq(ms, m), 1),
            env, Ev("await_field_post_create", r, None)),
         env, Ev("post_create", r, None)),
      env, r)

\* Model.create(data) on model m from the heap hp: the create of the parent
\* model first, then the steps on the record the call resolves with.
RECURSIVE CreateSteps(_, _, _, _, _)
CreateSteps(st, hp, env, m, data) ==
    CreateOwnSteps(IF Inherits(m) # None
                     THEN CreateSteps(st, [hp EXCEPT !.models = ModelInit(@, m)], env,
                                      Inherits(m), Put(data, InheritField, m))
                     ELSE st,
                   Create(hp, m, data).models, env, m, Create(hp, m, data).result)

\* await record.unlink()
StepUnlink(r, env) ==
    /\ Len(calls) < MaxStepCalls
    /\ records[r].model # None
    /\ records' = UnlinkSteps(StepHeap, env, r).records
    /\ tables' = UnlinkSteps(StepHeap, env, r).tables
    /\ models' = UnlinkSteps(StepHeap, env, r).models
    /\ calls' = Append(calls, StepCall("unlink", r, env, UnlinkSteps(StepHeap, env, r)))
    /\ UNCHANGED <<cfg, req, thrown, context, repoState, ctxLast, last, cacheVars>>

\* await model.create(data), for the calls that resolve.
StepCreate(m, data, env) ==
    /\ Len(calls) < MaxStepCalls
    /\ Create(Heap, m, data).thrown = None
    /\ records' = Create(Heap, m, data).records
    /\ tables' = Create(Heap, m, data).tables
    /\ models' = Create(Heap, m, data).models
    /\ calls' = Append(calls, StepCall("create", Create(Heap, m, data).result, env,
                                       CreateSteps(StepHeap, Heap, env, m, data)))
    /\ UNCHANGED <<cfg, req, thrown, context, repoState, ctxLast, last, cacheVars>>

StepNext ==
    \/ \E r \in RecordIds, env \in Envs(FlushFails) : StepFlush(r, env)
    \/ \E r \in RecordIds, env \in Envs(UnlinkFails) : StepUnlink(r, env)
    \/ \E m \in Models, data \in {[title |-> "t9"], [title |-> "t9", name |-> "n9"]},
          env \in Envs({None}) : StepCreate(m, data, env)

(***************************************************************************)
(* flush, unlink and create calls on the loaded records, with their logs.  *)
(***************************************************************************)
InitSteps == ScopeInit /\ CtxInit /\ FlushHeapInit /\ IdInit /\ FlushInit /\ CacheOff /\ TxOff

SpecSteps == InitSteps /\ [][StepNext]_vars

(***************************************************************************)
(* Record.sync on records whose fields have columns named differently.     *)
(***************************************************************************)
\* The fields sync walks over: name, column, and whether it is the primary
\* field of the model.
SyncFields(m) ==
    IF m = "Base"
      THEN <<[name |-> "id", column |-> "id", primary |-> TRUE],
             [name |-> "title", column |-> "title_col", primary |-> FALSE],
             [name |-> "note", column |-> "note", primary |-> FALSE]>>
      ELSE <<[name |-> "id", column |-> "id", primary |-> TRUE],
             [name |-> "name", column |-> "name_col", primary |-> FALSE]>>

\* field.deserialize(record, value)
Deserialize(v) == "d:" \o v

\* The key of data sync reads for a field: the name, else the column.
SyncKey(fld, data) == IF Has(data, fld.name) THEN fld.name ELSE fld.column

\* Whether sync skips the field: it is in data under neither key, or it is the
\* primary field and the record has a key already.
SyncSkips(rec, fld, data) ==
    \/ ~Has(data, fld.name) /\ ~Has(data, fld.column)
    \/ fld.primary /\ Has(rec.data, fld.column) /\ rec.data[fld.column] # ""

\* A turn of the loop that leaves the pending change of the column in place.
SyncedKeepingChange(rec, fld, data) ==
    IF SyncSkips(rec, fld, data) THEN rec
    ELSE [rec EXCEPT !.data = Put(@, fld.column, Deserialize(data[SyncKey(fld, data)]))]

\* One turn of the loop of sync.
SyncedField(rec, fld, data) ==
    IF SyncSkips(rec, fld, data) THEN rec
    ELSE [rec EXCEPT !.data = Put(@, fld.column, Deserialize(data[SyncKey(fld, data)])),
                     !.changes = IF Has(@, fld.column) THEN Remove(@, fld.column) ELSE @]

RECURSIVE SyncedFields(_, _, _, _)
SyncedFields(rec, fs, i, data) ==
    IF i > Len(fs) THEN rec
    ELSE SyncedFields(SyncedField(rec, fs[i], data), fs, i + 1, data)

\* The end of sync: _isReady = true, _isDirty = there are pending changes.
SyncEnded(rec) == [rec EXCEPT !.isReady = "true", !.isDirty = (DOMAIN rec.changes # {})]

\* Record.sync(data) on record r of the heap: the parent first.
RECURSIVE SyncColumns(_, _, _)
SyncColumns(recs, r, data) ==
    [(IF recs[r].parent # 0 THEN SyncColumns(recs, recs[r].parent, data) ELSE recs)
       EXCEPT ![r] = SyncEnded(SyncedFields(@, SyncFields(recs[r].model), 1, data))]

MaxSyncs == 1

\* What a record may hold before a sync: _data and _changes by column.
SyncData(m) ==
    IF m = "Base"
      THEN {EmptyObj, [id |-> "d:k1"], [id |-> "d:k1", title_col |-> "d:t0"]}
      ELSE {EmptyObj, [id |-> "d:k1", name_col |-> "d:n0"]}

SyncChanges(m) ==
    IF m = "Base"
      THEN {EmptyObj, [title_col |-> "t8"], [title_col |-> "t8", note |-> "x8"]}
      ELSE {EmptyObj, [name_col |-> "n8"], [id |-> "k8"]}

SyncRecord(m, parent, d, c) ==
    [model |-> m, parent |-> parent, data |-> d, changes |-> c,
     isReady |-> "false", isDirty |-> (c # EmptyObj), flushed |-> FALSE]

\* The data objects given to sync.
SyncInputs ==
    { EmptyObj, [id |-> "k2"], [title |-> "t1"], [title_col |-> "t2"],
      [title |-> "t1", title_col |-> "t2"], [id |-> "k2", name_col |-> "n1", note |-> "x1"],
      [name |-> "n1", title |-> "t1"], [bogus |-> "b"] }

\* record.sync(data)
SyncCall(r, data) ==
    /\ Len(calls) < MaxSyncs
    /\ records' = SyncColumns(records, r, data)
    /\ calls' = Append(calls, [kind |-> "sync", target |-> r, data |-> data, before |-> records])
    /\ UNCHANGED <<tables, notFlush>>

SyncNext == \E r \in 1..3, data \in SyncInputs : SyncCall(r, data)

\* A Base record, and a ChildA record with its Base parent.
SyncInit ==
    /\ \E d1, d2 \in SyncData("Base"), d3 \in SyncData("ChildA"),
          c1, c2 \in SyncChanges("Base"), c3 \in SyncChanges("ChildA") :
         records = <<SyncRecord("Base", 0, d1, c1), SyncRecord("Base", 0, d2, c2),
                     SyncRecord("ChildA", 2, d3, c3)>>
    /\ models = Loaded.models
    /\ tables = [m \in Models |-> EmptyObj]

InitSync == ScopeInit /\ CtxInit /\ SyncInit /\ IdInit /\ FlushInit /\ CacheOff /\ TxOff

SpecSync == InitSync /\ [][SyncNext]_vars

(***************************************************************************)
(* Include lists of scopes.  An include option is an object of the heap    *)
(* cfg.heap: the lists of the scopes and the merged lists hold references. *)
(***************************************************************************)
IncludeOption(relation, as, required, include) ==
    [relation |-> relation, as |-> as, required |-> required, include |-> include]

\* The include options the scope definitions are written with.
IncludeHeap ==
    << IncludeOption("posts", None, FALSE, <<>>),
       IncludeOption("author", "writer", FALSE, <<>>),
       IncludeOption("posts", None, TRUE, <<4>>),
       IncludeOption("comments", None, FALSE, <<>>),
       IncludeOption("author", None, FALSE, <<>>),
       IncludeOption("posts", "", FALSE, <<7, 9>>),
       IncludeOption("comments", None, TRUE, <<8>>),
       IncludeOption("likes", None, FALSE, <<>>),
       IncludeOption("tags", None, FALSE, <<>>) >>

IncludeScopeNames == {"plain", "nested", "deep", "named", "bare"}

\* scopes[name].include: references to include options, or relation names.
\* The scope `bare` has no include.
IncludeLists ==
    [n \in IncludeScopeNames |->
       CASE n = "plain" -> <<[ref |-> 1], [ref |-> 2]>>
         [] n = "nested" -> <<[ref |-> 3], [ref |-> 5]>>
         [] n = "deep" -> <<[ref |-> 6]>>
         [] n = "named" -> <<[str |-> "tags"], [str |-> "posts"], [str |-> "tags"]>>
         [] OTHER -> <<>>]

\* `${i.relation}:${i.as || ''}`
IncludeKey(i) == i.relation \o ":" \o (IF i.as = None THEN "" ELSE i.as)

\* normalizeInclude over incoming.include: a string becomes a new object, an
\* object is passed on as it is.
RECURSIVE NormalizeIncludes(_, _, _, _)
NormalizeIncludes(heap, items, i, out) ==
    IF i > Len(items) THEN [heap |-> heap, result |-> out]
    ELSE IF "str" \in DOMAIN items[i]
      THEN NormalizeIncludes(Append(heap, IncludeOption(items[i].str, None, FALSE, <<>>)),
                             items, i + 1, Append(out, Len(heap) + 1))
      ELSE NormalizeIncludes(heap, items, i + 1, Append(out, items[i].ref))

\* result.find((r) => key of r === key)
FindInclude(heap, result, key) ==
    result[CHOOSE j \in DOMAIN result :
             /\ IncludeKey(heap[result[j]]) = key
             /\ \A k \in 1..(j - 1) : IncludeKey(heap[result[k]]) # key]

\* mergeIncludes from the i-th incoming option on, with `result` so far.
RECURSIVE MergeIncludesFrom(_, _, _, _)
MergeIncludesFrom(heap, result, incoming, i) ==
    IF i > Len(incoming) THEN [heap |-> heap, result |-> result]
    ELSE IF \A j \in DOMAIN result : IncludeKey(heap[result[j]]) # IncludeKey(heap[incoming[i]])
      THEN MergeIncludesFrom(heap, Append(result, incoming[i]), incoming, i + 1)
    ELSE IF heap[incoming[i]].include = <<>>
      THEN MergeIncludesFrom(heap, result, incoming, i + 1)
    ELSE MergeIncludesFrom(
           [MergeIncludesFrom(heap,
                              heap[FindInclude(heap, result, IncludeKey(heap[incoming[i]]))].include,
                              heap[incoming[i]].include, 1).heap
              EXCEPT ![FindInclude(heap, result, IncludeKey(heap[incoming[i]]))].include =
                        MergeIncludesFrom(heap, @, heap[incoming[i]].include, 1).result],
           result, incoming, i + 1)

\* mergeIncludes(base, incoming)
MergeIncludes(heap, base, incoming) == MergeIncludesFrom(heap, base, incoming, 1)

\* mergeOptions for the include of the options; `merged` is the include list
\* so far.
MergeOptionsInclude(heap, merged, items) ==
    IF items = <<>> THEN [heap |-> heap, result |-> merged]
    ELSE MergeIncludes(NormalizeIncludes(heap, items, 1, <<>>).heap, merged,
                       NormalizeIncludes(heap, items, 1, <<>>).result)

\* applyScopes for the include lists of the named scopes, in order.
RECURSIVE ApplyIncludeScopes(_, _, _, _)
ApplyIncludeScopes(heap, merged, names, i) ==
    IF i > Len(names) THEN [heap |-> heap, result |-> merged]
    ELSE ApplyIncludeScopes(MergeOptionsInclude(heap, merged, IncludeLists[names[i]]).heap,
                            MergeOptionsInclude(heap, merged, IncludeLists[names[i]]).result,
                            names, i + 1)

\* The include list `ids` written out: each option with its nested list.
RECURSIVE IncludeTree(_, _)
IncludeTree(heap, ids) ==
    [j \in DOMAIN ids |-> [heap[ids[j]] EXCEPT !.include = IncludeTree(heap, @)]]

MaxApplied == 2
MaxApplies == 2

\* The scope requests of one query.
IncludeRequests ==
    UNION {[1..n -> IncludeScopeNames] : n \in 1..MaxApplied}

\* applyScopes(request, names): the merged include list, as a tree.
ApplyIncludes(names) ==
    /\ Len(calls) < MaxApplies
    /\ cfg' = [cfg EXCEPT !.heap = ApplyIncludeScopes(cfg.heap, <<>>, names, 1).heap]
    /\ calls' = Append(calls,
                  [kind |-> "applyScopes", names |-> names,
                   include |-> IncludeTree(cfg'.heap,
                                           ApplyIncludeScopes(cfg.heap, <<>>, names, 1).result)])
    /\ UNCHANGED <<req, thrown, context, repoState, ctxLast, records, models, tables, last,
                   cacheVars>>

IncludeNext == \E names \in IncludeRequests : ApplyIncludes(names)

InitInclude ==
    /\ cfg = [heap |-> IncludeHeap]
    /\ req = NoRequest /\ thrown = NoThrow
    /\ CtxInit /\ HeapInit /\ IdInit /\ FlushInit /\ CacheOff /\ TxOff

SpecInclude == InitInclude /\ [][IncludeNext]_vars

(***************************************************************************)
(* Model.lookup(ids) next to allocate calls whose hydration is in flight.  *)
(***************************************************************************)
MaxIds == 2

LookupKeys == {1, 2, 3}

\* The lists of ids given to lookup.
LookupInputs == UNION {[1..n -> LookupKeys] : n \in 1..MaxIds}

\* What lookup finds for an id: "absent" when the identity map has no entry,
\* else the _isReady of the record: "true", "false", or "pending" (a promise).
Residency(st, m, id) ==
    IF Has(st.models[m].entities, id)
      THEN st.records[st.models[m].entities[id]].isReady
      ELSE "absent"

\* entity && entity._isReady: a promise is an object, and so truthy.
ResidentReady(st, m, id) == Residency(st, m, id) \in {"true", "pending"}

\* The loop of lookup: the ids answered from the identity map, in order.
RECURSIVE DirectIds(_, _, _, _)
DirectIds(st, m, ids, i) ==
    IF i > Len(ids) THEN <<>>
    ELSE (IF ResidentReady(st, m, ids[i]) THEN <<ids[i]>> ELSE <<>>)
           \o DirectIds(st, m, ids, i + 1)

\* The ids lookup hands to the batch fetch, in order.
RECURSIVE Without(_, _, _)
Without(ids, direct, i) ==
    IF i > Len(ids) THEN <<>>
    ELSE (IF \E j \in DOMAIN direct : direct[j] = ids[i] THEN <<>> ELSE <<ids[i]>>)
           \o Without(ids, direct, i + 1)

\* this._lookup.lookup(missing): one fetch for all the ids; each row found is
\* allocated.  st.result collects the records, st.thrown an error of allocate.
RECURSIVE Fetched(_, _, _, _, _)
FetchedRow(st, m, missing, i, out, got) ==
    Fetched(got, m, missing, i + 1, IF got.thrown = None THEN Append(out, got.result) ELSE out)

Fetched(st, m, missing, i, out) ==
    IF st.thrown # None THEN [st EXCEPT !.result = <<>>]
    ELSE IF i > Len(missing) THEN [st EXCEPT !.result = out]
    ELSE IF Found(st.tables, m, missing[i])
      THEN FetchedRow(st, m, missing, i, out, Allocate(st, m, st.tables[m][missing[i]]))
      ELSE Fetched(st, m, missing, i + 1, out)

\* The records of the identity map for the ids.
EntitiesOf(st, m, ids) == [j \in DOMAIN ids |-> st.models[m].entities[ids[j]]]

\* return result.concat(await this._lookup.lookup(missing))
ResultWith(st, m, direct, fetched) ==
    [fetched EXCEPT !.result = IF fetched.thrown = None
                                 THEN EntitiesOf(st, m, direct) \o @ ELSE <<>>]

\* Model.lookup(ids) run to its end; direct is the list of ids the loop
\* answered from the identity map.
LookedUp(st, m, ids, direct) ==
    IF Without(ids, direct, 1) = <<>>
      THEN [st EXCEPT !.result = EntitiesOf(st, m, direct)]
      ELSE ResultWith(st, m, direct, Fetched(st, m, Without(ids, direct, 1), 1, <<>>))

\* What a call of lookup leaves: st is the heap at its end.
LookupRan(m, ids, direct, missing, st) ==
    /\ Fits(st)
    /\ records' = st.records
    /\ models' = st.models
    /\ last' = [op |-> "lookup", model |-> m, data |-> EmptyObj,
                result |-> 0, thrown |-> st.thrown,
                prior |-> 0, heapBefore |-> Len(records), callee |-> last.callee,
                allocateOnly |-> FALSE, inserts |-> <<>>,
                ids |-> ids,
                found |-> [j \in DOMAIN ids |-> Residency(Heap, m, ids[j])],
                direct |-> direct,
                missing |-> missing,
                fetches |-> IF missing = <<>> THEN 0 ELSE 1,
                entities |-> models[m].entities,
                returned |-> st.result]
    /\ UNCHANGED <<tables, calls, cfg, req, thrown, context, repoState, ctxLast, cacheVars>>

LookupSplit(m, ids, direct) ==
    LookupRan(m, ids, direct, Without(ids, direct, 1), LookedUp(Heap, m, ids, direct))

\* model.lookup(ids)
ModelLookup(m, ids) == LookupSplit(m, ids, DirectIds(Heap, m, ids, 1))

LookupNext ==
    \/ \E m \in {"Base", "ChildA"}, data \in HydrateInputs : HydrateAllocate(m, data)
    \/ \E i \in 1..MaxLookups : LookupFinds(i)
    \/ \E i \in 1..MaxLookups, outcome \in {"rejected", "resolved"} : LookupMisses(i, outcome)
    \/ \E m \in {"Base", "ChildA"}, ids \in LookupInputs : ModelLookup(m, ids)

SpecLookup == InitHydrate /\ [][LookupNext]_vars

(***************************************************************************)
(* Model.findById and Model.findByPk.                                      *)
(***************************************************************************)
\* _inferTable(name) for the names of the models: camel case to snake case.
InferTable(m) ==
    CASE m = "Base" -> "base" [] m = "ChildA" -> "child_a" [] OTHER -> "child_b"

\* this._getDiscriminatorField(): whether the model has one.
GetDiscriminatorField(ms, m) == ms[m].refField

\* this.query().where({ [`${this.table}.id`]: id }).first(): the row of the
\* table with that id, allocated; null (0) when there is none.
QueryFirst(st, m, id) ==
    IF Has(st.tables[m], id) THEN Allocate(st, m, st.tables[m][id]) ELSE [st EXCEPT !.result = 0]

\* this.lookup(id).then((results) => results[0])
FirstResult(st) ==
    [st EXCEPT !.result = IF st.thrown = None /\ Len(@) > 0 THEN @[1] ELSE 0]

\* The branch findById takes on the initialized model.
FindPath(st, m, id) ==
    IF Has(st.models[m].entities, id) THEN "entities"
    ELSE IF GetDiscriminatorField(st.models, m) THEN "query"
    ELSE "lookup"

\* Model.findById(id) on the initialized model.
FoundById(st, m, id) ==
    IF FindPath(st, m, id) = "entities" THEN [st EXCEPT !.result = st.models[m].entities[id]]
    ELSE IF FindPath(st, m, id) = "query" THEN QueryFirst(st, m, id)
    ELSE FirstResult(LookedUp(st, m, <<id>>, DirectIds(st, m, <<id>>, 1)))

MaxFindRecs == 3

FindKeys == {1, 2, 3}

FindRan(op, m, id, st0, st) ==
    /\ Len(st.records) <= MaxFindRecs
    /\ records' = st.records
    /\ models' = st.models
    /\ last' = [op |-> op, model |-> m, data |-> [id |-> id],
                result |-> st.result, thrown |-> st.thrown,
                prior |-> Prior(m, [id |-> id]), heapBefore |-> Len(records),
                callee |-> last.callee, allocateOnly |-> FALSE, inserts |-> <<>>,
                discriminator |-> GetDiscriminatorField(st0.models, m),
                path |-> FindPath(st0, m, id),
                where |-> IF FindPath(st0, m, id) = "query" THEN InferTable(m) \o ".id" ELSE None]
    /\ UNCHANGED <<tables, calls, cfg, req, thrown, context, repoState, ctxLast, cacheVars>>

FindInit(op, m, id, st0) == FindRan(op, m, id, st0, FoundById(st0, m, id))

\* model.findById(id): this._init() first.
FindById(m, id) == FindInit("findById", m, id, [Heap EXCEPT !.models = ModelInit(models, m)])

\* model.findByPk(pk)
FindByPk(m, pk) == FindInit("findByPk", m, pk, [Heap EXCEPT !.models = ModelInit(models, m)])

\* model.allocate(data) while few records exist.
FindAllocate(m, data) ==
    /\ Len(Allocate(Heap, m, data).records) <= MaxFindRecs
    /\ Ran("allocate", m, data, Allocate(Heap, m, data))

FindInputs ==
    { [id |-> 1, title |-> "t1", name |-> "n1", _inherit |-> "ChildA"],
      [id |-> 2, title |-> "t2"] }

FindNext ==
    \/ \E m \in Models : Initialize(m)
    \/ \E m \in {"Base", "ChildA"}, data \in FindInputs : FindAllocate(m, data)
    \/ \E m \in {"Base", "ChildA"}, id \in FindKeys : FindById(m, id)
    \/ \E m \in {"Base", "ChildA"}, pk \in FindKeys : FindByPk(m, pk)

\* Storage has the rows of a ChildA with key 1 and of another with key 3.
FindHeapInit ==
    /\ records = <<>>
    /\ models = [m \in Models |-> NewModel]
    /\ tables = [m \in Models |->
                   IF m = "Base"
                     THEN Put(Put(EmptyObj, 1, [id |-> 1, title |-> "t1", _inherit |-> "ChildA"]),
                              3, [id |-> 3, title |-> "t3", _inherit |-> "ChildA"])
                   ELSE IF m = "ChildA"
                     THEN Put(Put(EmptyObj, 1, [id |-> 1, name |-> "n1"]),
                              3, [id |-> 3, name |-> "n3"])
                   ELSE EmptyObj]

InitFind == ScopeInit /\ CtxInit /\ FindHeapInit /\ IdInit /\ FlushInit /\ CacheOff /\ TxOff

SpecFind == InitFind /\ [][FindNext]_vars

(***************************************************************************)
(* Model._init in full: the discriminator field of the parent, the fields  *)
(* of the model and its primary field; Model.extends after a first use.    *)
(* cfg holds what the classes declare and how a Field object converts to a *)
(* property key.                                                           *)
(***************************************************************************)
FieldDef(name, type) == [name |-> name, type |-> type, isDiscriminator |-> FALSE, models |-> <<>>]

FieldNames(fs) == {fs[i].name : i \in DOMAIN fs}

FieldAt(fs, name) == CHOOSE i \in DOMAIN fs : fs[i].name = name

\* fields[name] = def: an existing key keeps its place.
SetField(fs, def) ==
    IF def.name \in FieldNames(fs)
      THEN [fs EXCEPT ![FieldAt(fs, def.name)] = def]
      ELSE Append(fs, def)

\* The inheritField of a model: nothing, a name (a string), or the Field
\* object of the parent that _init stores in it.
NoField == [kind |-> "none", name |-> None]
NameOf(n) == [kind |-> "name", name |-> n]
FieldObject(n) == [kind |-> "field", name |-> n]

\* A model after Repository.register of its class, before any use.
RegisteredModel(inherits, inheritField, fields) ==
    [cls_init |-> FALSE, inherits |-> inherits, inheritField |-> inheritField,
     fields |-> fields, refField |-> None, primaryField |-> None,
     entities |-> {}, inits |-> 0, inherited |-> 1]

\* this.super.fields[this.inheritField]: the property key of inheritField.  A
\* Field object is converted to a string; the Field class decides how (the
\* default of a class is "[object Object]").
PropertyKey(inh, conversion) ==
    IF inh.kind = "name" \/ conversion = "name" THEN inh.name ELSE "[object Object]"

\* The fields loop of _init and the implicit primary key.
FieldsAttached(model) ==
    LET refs == {i \in DOMAIN model.fields : model.fields[i].type = "reference"}
        prims == {i \in DOMAIN model.fields : model.fields[i].type = "primary"}
        withRef == [model EXCEPT
                      !.refField = IF refs = {} THEN @ ELSE model.fields[Max(refs)].name,
                      !.primaryField = IF prims = {} THEN @ ELSE model.fields[Max(prims)].name]
    IN IF withRef.primaryField = None
         THEN [withRef EXCEPT !.fields = SetField(@, FieldDef("id", "primary")),
                              !.primaryField = "id"]
         ELSE withRef

\* The end of _init: cls_init = true and the 'init' event.
InitEnded(model) == [FieldsAttached(model) EXCEPT !.cls_init = TRUE, !.inits = @ + 1]

\* models.push(name) whether the list includes the name or not.
PushAlways(list, name) == Append(list, name)

\* models.push(name) unless the list includes the name.
PushOnce(list, name) ==
    IF \E i \in DOMAIN list : list[i] = name THEN list ELSE Append(list, name)

\* The inherits branch of _init of model m with parent s, the parent being
\* initialized and `inh` the inheritField resolved to a name or a Field.
InheritResolved(ms, m, s, inh, key) ==
    IF key \notin FieldNames(ms[s].fields) /\ ms[s].refField # None
      THEN [models |-> [ms EXCEPT ![m].inheritField = inh], thrown |-> "SecondReferenceField"]
    ELSE IF key \in FieldNames(ms[s].fields) /\ ms[s].refField = None
      THEN [models |-> [ms EXCEPT ![m].inheritField = NoField], thrown |-> "TypeError"]
    ELSE LET ref == IF key \in FieldNames(ms[s].fields) THEN ms[s].refField ELSE key
             made == IF key \in FieldNames(ms[s].fields) THEN ms[s].fields
                     ELSE Append(ms[s].fields,
                                 [name |-> key, type |-> "reference", isDiscriminator |-> TRUE,
                                  models |-> <<m>>])
         IN [models |->
               [ms EXCEPT
                  ![s].fields = [made EXCEPT ![FieldAt(made, ref)] =
                                   [@ EXCEPT !.isDiscriminator = TRUE,
                                             !.models = PushOnce(@, m)]],
                  ![s].refField = ref,
                  ![m].inheritField = FieldObject(ref)],
             thrown |-> None]

\* inheritField as the first two tests of the branch leave it.
InheritFieldOf(ms, m, s) ==
    IF ms[m].inheritField # NoField THEN ms[m].inheritField
    ELSE IF ms[s].refField # None THEN NameOf(ms[s].refField)
    ELSE NameOf("_inherit")

\* Model._init; thrown names the error when it throws.
RECURSIVE InitModel(_, _, _)
InitModel(ms, m, conversion) ==
    IF ms[m].cls_init THEN [models |-> ms, thrown |-> None]
    ELSE IF ms[m].inherits = None
      THEN [models |-> [ms EXCEPT ![m] = InitEnded(@)], thrown |-> None]
    ELSE LET up == InitModel(ms, ms[m].inherits, conversion).models
             res == InheritResolved(up, m, ms[m].inherits,
                                    InheritFieldOf(up, m, ms[m].inherits),
                                    PropertyKey(InheritFieldOf(up, m, ms[m].inherits), conversion))
         IN IF res.thrown # None THEN res
            ELSE [models |-> [res.models EXCEPT ![m] = InitEnded(@)], thrown |-> None]

\* The classes that can be registered for a model after the first: one that
\* adds a field, and the class of the model once more.
Extensions == {"fields", "same"}

\* Object.assign(this.fields, MixinClass.fields)
RECURSIVE AssignFields(_, _, _)
AssignFields(fs, defs, i) ==
    IF i > Len(defs) THEN fs ELSE AssignFields(SetField(fs, defs[i]), defs, i + 1)

\* Model.extends(MixinClass)
Extended(cf, model, m, ext) ==
    [model EXCEPT
       !.cls_init = FALSE,
       !.entities = IF model.cls_init THEN {} ELSE @,
       !.inherited = @ + 1,
       !.fields = AssignFields(@, IF ext = "fields" THEN <<FieldDef("extra", "string")>>
                                  ELSE cf.declared[m], 1),
       !.inheritField = IF ext = "same" /\ cf.inheritField[m] # None
                          THEN NameOf(cf.inheritField[m]) ELSE @]

MaxExtends == 2
MaxInitKeys == 1

\* The classes registered after the first one of each model.
LaterClasses(ms) == ms["Base"].inherited + ms["ChildA"].inherited + ms["ChildB"].inherited - 3

InitCalled(op, m, res) ==
    [op |-> op, model |-> m, thrown |-> res.thrown, before |-> models]

\* model.query(): this._init()
InitQuery(m) ==
    /\ models' = InitModel(models, m, cfg.conversion).models
    /\ last' = InitCalled("query", m, InitModel(models, m, cfg.conversion))
    /\ UNCHANGED <<records, tables, notIdentity>>

\* model.allocate(data) and model.create(data) with the key id: _init when
\* cls_init is false, then the record is put in the identity map of the model
\* and in that of its parent.
InitAllocate(m, op, id) ==
    /\ op \in {"allocate", "create"}
    /\ models' =
         IF InitModel(models, m, cfg.conversion).thrown # None
           THEN InitModel(models, m, cfg.conversion).models
           ELSE [x \in Models |->
                   IF x = m \/ x = models[m].inherits
                     THEN [InitModel(models, m, cfg.conversion).models[x] EXCEPT
                             !.entities = @ \cup {id}]
                     ELSE InitModel(models, m, cfg.conversion).models[x]]
    /\ last' = InitCalled(op, m, InitModel(models, m, cfg.conversion))
    /\ UNCHANGED <<records, tables, notIdentity>>

\* repo.register(cls) for a model that is registered: model.extends(cls).
InitRegister(m, ext) ==
    /\ ext \in Extensions
    /\ LaterClasses(models) < MaxExtends
    /\ models' = [models EXCEPT ![m] = Extended(cfg, @, m, ext)]
    /\ last' = [op |-> "register", model |-> m, thrown |-> None, before |-> models]
    /\ UNCHANGED <<records, tables, notIdentity>>

InitNext ==
    \/ \E m \in Models : InitQuery(m)
    \/ \E m \in Models, op \in {"allocate", "create"}, id \in 1..MaxInitKeys :
          InitAllocate(m, op, id)
    \/ \E m \in Models, ext \in Extensions : InitRegister(m, ext)

\* Base with or without a declared primary field; ChildA inherits Base; ChildB
\* inherits Base and may name its inheritField.
\* The fields the class of a model declares.
Declared(m, prim) ==
    IF m = "Base"
      THEN IF prim = None THEN <<FieldDef("title", "string")>>
           ELSE <<FieldDef(prim, "primary"), FieldDef("title", "string")>>
    ELSE IF m = "ChildA" THEN <<FieldDef("name", "string")>>
    ELSE <<FieldDef("id", "primary"), FieldDef("name", "string")>>

InitModels ==
    /\ \E prim \in {None, "code"}, inh \in {None, "kind"}, conversion \in {"object", "name"} :
         /\ cfg = [conversion |-> conversion,
                   inheritField |-> [m \in Models |-> IF m = "ChildB" THEN inh ELSE None],
                   declared |-> [m \in Models |-> Declared(m, prim)]]
         /\ models =
              [m \in Models |->
                 RegisteredModel(Inherits(m),
                                 IF m = "ChildB" /\ inh # None THEN NameOf(inh) ELSE NoField,
                                 Declared(m, prim))]
    /\ records = <<>>
    /\ tables = [m \in Models |-> EmptyObj]
    /\ last = [op |-> "none", model |-> None, thrown |-> None, before |-> models]

InitInit ==
    /\ req = NoRequest /\ thrown = NoThrow
    /\ CtxInit /\ InitModels /\ FlushInit /\ CacheOff /\ TxOff

SpecInit == InitInit /\ [][InitNext]_vars

(***************************************************************************)
(* Record.flush and Record.unlink on a model with a default scope: the     *)
(* UPDATE and the DELETE are requests made by model.query().               *)
(***************************************************************************)
ScopedKeys == {1, 2}

\* A declaration with a default scope that hides soft-deleted rows.
SoftDelete == [defaultScope |-> [where |-> W_notDeleted]]

\* this._model.query().where({ id: this.id }), as its await leaves it: the
\* scopes of the request applied.
RowRequest(c, id) ==
    ApplyScopesToRequest(c, [ModelQuery(c) EXCEPT !.wheres = <<[preds |-> {<<"id", id>>}]>>]).req

\* The rows of the table the request reaches.
Reached(c, table, id) ==
    {k \in DOMAIN table : \A i \in 1..Len(RowRequest(c, id).wheres) :
                             Matches(table[k], RowRequest(c, id).wheres[i])}

\* The rows a request by the key alone reaches.
ReachedByKey(c, table, id) == {k \in DOMAIN table : table[k].id = id}

\* .update(update)
RowsUpdated(table, keys, update) ==
    [k \in DOMAIN table |-> IF k \in keys THEN Spread(table[k], update) ELSE table[k]]

\* .delete()
RowsDeleted(table, keys) == [k \in (DOMAIN table) \ keys |-> table[k]]

\* Record.flush of a record of the model, all hooks resolving.
ScopedFlushed(c, table, rec) ==
    IF ~rec.isDirty THEN [table |-> table, rec |-> rec, thrown |-> None, reached |-> {}]
    ELSE IF ~rec.linked
      THEN [table |-> table, rec |-> [rec EXCEPT !.isDirty = FALSE], thrown |-> "TypeError",
            reached |-> {}]
    ELSE [table |-> IF DOMAIN rec.changes # {}
                      THEN RowsUpdated(table, Reached(c, table, rec.data.id), rec.changes)
                      ELSE table,
          rec |-> [rec EXCEPT !.data = Spread(@, rec.changes), !.changes = EmptyObj,
                              !.isDirty = FALSE, !.flushed = TRUE],
          thrown |-> None,
          reached |-> IF DOMAIN rec.changes # {} THEN Reached(c, table, rec.data.id) ELSE {}]

\* Record.unlink of a record of the model, all hooks resolving.
ScopedUnlinked(c, table, rec) ==
    IF ~rec.linked THEN [table |-> table, rec |-> rec, thrown |-> None, reached |-> {}]
    ELSE [table |-> RowsDeleted(table, Reached(c, table, rec.data.id)),
          rec |-> [rec EXCEPT !.linked = FALSE],
          thrown |-> None,
          reached |-> Reached(c, table, rec.data.id)]

MaxScopedCalls == 3

ScopedValues == [title : {"t1"}] \cup [deleted : BOOLEAN] \cup [title : {"t2"}, active : {FALSE}]

\* record.title = ..., record.deleted = ...
ScopedAssign(r, values) ==
    /\ records[r].linked
    /\ Len(calls) < MaxScopedCalls
    /\ calls' = Append(calls, "assign")
    /\ records' = [records EXCEPT ![r] = SetFields(@, values)]
    /\ last' = [op |-> "assign", target |-> r, thrown |-> None, reached |-> {},
                before |-> records[r], rowBefore |-> {}]
    /\ UNCHANGED <<tables, models, cfg, req, thrown, context, repoState, ctxLast, cacheVars>>

\* The row of the table with the key of the record: {} when there is none.
RowOf(table, rec) == {table[k] : k \in {x \in DOMAIN table : table[x].id = rec.data.id}}

\* await record.flush()
ScopedFlush(r) ==
    /\ records[r].isDirty
    /\ Len(calls) < MaxScopedCalls
    /\ calls' = Append(calls, "flush")
    /\ records' = [records EXCEPT ![r] = ScopedFlushed(cfg, tables, @).rec]
    /\ tables' = ScopedFlushed(cfg, tables, records[r]).table
    /\ last' = [op |-> "flush", target |-> r,
                thrown |-> ScopedFlushed(cfg, tables, records[r]).thrown,
                reached |-> ScopedFlushed(cfg, tables, records[r]).reached,
                before |-> records[r], rowBefore |-> RowOf(tables, records[r])]
    /\ UNCHANGED <<models, cfg, req, thrown, context, repoState, ctxLast, cacheVars>>

\* await record.unlink()
ScopedUnlink(r) ==
    /\ records[r].linked
    /\ Len(calls) < MaxScopedCalls
    /\ calls' = Append(calls, "unlink")
    /\ records' = [records EXCEPT ![r] = ScopedUnlinked(cfg, tables, @).rec]
    /\ tables' = ScopedUnlinked(cfg, tables, records[r]).table
    /\ models' = [models EXCEPT !.entities = @ \ {records[r].data.id}]
    /\ last' = [op |-> "unlink", target |-> r, thrown |-> None,
                reached |-> ScopedUnlinked(cfg, tables, records[r]).reached,
                before |-> records[r], rowBefore |-> RowOf(tables, records[r])]
    /\ UNCHANGED <<cfg, req, thrown, context, repoState, ctxLast, cacheVars>>

ScopedNext ==
    \/ \E r \in ScopedKeys, values \in ScopedValues : ScopedAssign(r, values)
    \/ \E r \in ScopedKeys : ScopedFlush(r)
    \/ \E r \in ScopedKeys : ScopedUnlink(r)

\* A row of the table, and the record model.unscoped() returns for it.
ScopedRow(id, deleted) == [id |-> id, title |-> "t0", deleted |-> deleted, active |-> TRUE]

ScopedRecord(row) ==
    [data |-> row, changes |-> EmptyObj, isDirty |-> FALSE, flushed |-> FALSE, linked |-> TRUE]

\* The model has a default scope or none; each of its two rows is soft-deleted
\* or not; both rows were loaded through unscoped().
InitScoped ==
    /\ \E decl \in {EmptyObj, SoftDelete}, d \in [ScopedKeys -> BOOLEAN] :
         /\ cfg = Extends(NoBuilder, decl)
         /\ tables = [k \in ScopedKeys |-> ScopedRow(k, d[k])]
         /\ records = [k \in ScopedKeys |-> ScopedRecord(ScopedRow(k, d[k]))]
    /\ models = [entities |-> ScopedKeys]
    /\ last = [op |-> "none", target |-> 0, thrown |-> None, reached |-> {},
               before |-> EmptyObj, rowBefore |-> {}]
    /\ req = NoRequest /\ thrown = NoThrow
    /\ CtxInit /\ FlushInit /\ CacheOff /\ TxOff

SpecScoped == InitScoped /\ [][ScopedNext]_vars

(***************************************************************************)
(* Record.flush await by await: several calls in flight at once, and       *)
(* assignments made while a call is suspended.  `calls` holds one frame per *)
(* call of flush (that of a parent included), `last` the log of what ran.   *)
(***************************************************************************)
notMid == <<cfg, req, thrown, context, repoState, ctxLast, models, cacheVars>>

MaxFrames == 4

MaxAssigns == 1

\* One call of an async method of record r, suspended at pc; `waits` is the
\* frame it awaits and `update` the payload it built.
Frame(kind, r, pc, waits) ==
    [kind |-> kind, target |-> r, pc |-> pc, waits |-> waits, update |-> EmptyObj]

MidEv(ev, r, payload) == [ev |-> ev, rec |-> r, payload |-> payload]

\* A flush that leaves _isDirty set until the changes are reconciled.
EnterOwnLate(st, r, i) ==
    IF ~st.records[r].isDirty THEN [st EXCEPT !.calls = [@ EXCEPT ![i].pc = "done"]]
    ELSE [st EXCEPT !.calls = [@ EXCEPT ![i].pc = "pre"],
                    !.log = Append(@, MidEv("pre_update", r, EmptyObj))]

\* if (this._isDirty) { this._isDirty = false; await this.pre_update(); ...
\* up to the first suspension of frame i.
EnterOwn(st, r, i) ==
    IF ~st.records[r].isDirty THEN [st EXCEPT !.calls = [@ EXCEPT ![i].pc = "done"]]
    ELSE [st EXCEPT !.records = [@ EXCEPT ![r].isDirty = FALSE],
                    !.calls = [@ EXCEPT ![i].pc = "pre"],
                    !.log = Append(@, MidEv("pre_update", r, EmptyObj))]

\* record.flush() up to its first suspension: with a parent the call of the
\* parent's flush runs up to its own first suspension and is awaited.
RECURSIVE Entered(_, _)
Entered(st, r) ==
    IF st.records[r].parent # 0
      THEN Entered([st EXCEPT !.calls = Append(@, Frame("flush", r, "parent", Len(@) + 2))],
                   st.records[r].parent)
      ELSE EnterOwn([st EXCEPT !.calls = Append(@, Frame("flush", r, "entered", 0))],
                    r, Len(st.calls) + 1)

MidHeap == [records |-> records, calls |-> calls, log |-> last]

FramesOf(recs, r) == IF recs[r].parent # 0 THEN 2 ELSE 1

\* record.flush(), not awaited yet; the calls of one run are made on one
\* record.
MidFlush(r) ==
    /\ Len(calls) + FramesOf(records, r) <= MaxFrames
    /\ calls # <<>> => calls[1].target = r
    /\ records' = Entered(MidHeap, r).records
    /\ calls' = Entered(MidHeap, r).calls
    /\ last' = Entered(MidHeap, r).log
    /\ UNCHANGED <<tables, notMid>>

\* The awaited flush of the parent has resolved: the body guarded by _isDirty.
AfterParent(i) ==
    /\ calls[i].pc = "parent"
    /\ calls[calls[i].waits].pc = "done"
    /\ records' = EnterOwn(MidHeap, calls[i].target, i).records
    /\ calls' = EnterOwn(MidHeap, calls[i].target, i).calls
    /\ last' = EnterOwn(MidHeap, calls[i].target, i).log
    /\ UNCHANGED <<tables, notMid>>

\* The hooks have resolved: the payload is built from the pending changes of
\* this moment and, when it has a key, the UPDATE is sent and awaited;
\* without a key the changes are reconciled at once.
AfterHooks(i) ==
    /\ calls[i].pc = "pre"
    /\ LET r == calls[i].target
           update == UpdateOf(models, records[r])
       IN IF Issues(update)
            THEN /\ calls' = [calls EXCEPT ![i].pc = "update", ![i].update = update]
                 /\ last' = Append(last, MidEv("update", r, update))
                 /\ UNCHANGED records
            ELSE /\ calls' = [calls EXCEPT ![i].pc = "post"]
                 /\ last' = Append(last, MidEv("post_update", r, EmptyObj))
                 /\ records' = [records EXCEPT ![r] = Reconciled(@)]
    /\ UNCHANGED <<tables, notMid>>

\* The UPDATE has resolved: the row holds the payload that was sent, and the
\* changes pending at this moment go to _data.
AfterUpdate(i) ==
    /\ calls[i].pc = "update"
    /\ LET r == calls[i].target
       IN /\ tables' = Updated(tables, records[r].model, IdOf(Current(records[r])),
                               calls[i].update)
          /\ records' = [records EXCEPT ![r] = Reconciled(@)]
          /\ last' = last \o <<MidEv("updated", r, calls[i].update),
                                MidEv("post_update", r, EmptyObj)>>
    /\ calls' = [calls EXCEPT ![i].pc = "post"]
    /\ UNCHANGED notMid

\* The post hooks have resolved: the call resolves.
AfterPost(i) ==
    /\ calls[i].pc = "post"
    /\ calls' = [calls EXCEPT ![i].pc = "done"]
    /\ UNCHANGED <<records, tables, last, notMid>>

Assigned(log) == {k \in 1..Len(log) : log[k].ev = "assign"}

MidValues(m) ==
    IF m = "Base" THEN {[title |-> "t2"], [title |-> "t3"]}
    ELSE {[name |-> "n2"], [name |-> "n3"]}

\* record.<field> = value, at any moment between two resumptions.
MidAssign(r, values) ==
    /\ Cardinality(Assigned(last)) < MaxAssigns
    /\ values \in MidValues(records[r].model)
    /\ records' = [records EXCEPT ![r] = SetFields(@, values)]
    /\ last' = Append(last, MidEv("assign", r, values))
    /\ UNCHANGED <<tables, calls, notMid>>

MidNext ==
    \/ \E r \in RecordIds : MidFlush(r)
    \/ \E i \in 1..Len(calls) : AfterParent(i)
    \/ \E i \in 1..Len(calls) : AfterHooks(i)
    \/ \E i \in 1..Len(calls) : AfterUpdate(i)
    \/ \E i \in 1..Len(calls) : AfterPost(i)
    \/ \E r \in RecordIds, values \in UNION {MidValues(m) : m \in Models} :
          MidAssign(r, values)

MidPending(m) == IF m = "Base" THEN {EmptyObj, [title |-> "t2"]} ELSE {EmptyObj, [name |-> "n2"]}

MidHeapInit ==
    /\ \E c1, c2 \in MidPending("Base"), c3 \in MidPending("ChildA") :
         records = <<WithPending(Loaded.records[1], c1), WithPending(Loaded.records[2], c2),
                     WithPending(Loaded.records[3], c3)>>
    /\ models = Loaded.models
    /\ tables = [m \in Models |->
                   IF m = "Base"
                     THEN (1 :> [id |-> 1, title |-> "t1"])
                            @@ (2 :> [id |-> 2, title |-> "t1", _inherit |-> "ChildA"])
                   ELSE IF m = "ChildA" THEN (2 :> [id |-> 2, name |-> "n1"])
                   ELSE EmptyObj]
    /\ calls = <<>>
    /\ last = <<>>

InitMid == ScopeInit /\ CtxInit /\ MidHeapInit /\ CacheOff /\ TxOff

SpecMid == InitMid /\ [][MidNext]_vars

(***************************************************************************)
(* Record.unlink await by await: several calls in flight at once, each     *)
(* awaited step resolving or rejecting, next to Model.flush and             *)
(* Repository.flush.  The records have no pending change.                   *)
(***************************************************************************)
MaxUnlinks == 4

MaxModelFlushes == 1

\* One call of unlink on record r: `model` is the model it captured (None
\* when it found the record detached), `waits` the frame it awaits.
Unlinking(r, pc, m) == [kind |-> "unlink", target |-> r, pc |-> pc, waits |-> 0, model |-> m]

\* An unlink that keeps the model reference until the record leaves the map.
UnlinkEnteredLate(st, r) ==
    IF st.records[r].model = None
      THEN [st EXCEPT !.calls = Append(@, Unlinking(r, "done", None))]
      ELSE [st EXCEPT !.calls = Append(@, Unlinking(r, "pre", st.records[r].model)),
                      !.log = Append(@, MidEv("pre_unlink", r, Len(st.calls) + 1))]

\* const model = this._model; if (!model) return this; this._model = null;
\* await this.pre_unlink(): record.unlink() up to its first suspension.
UnlinkEntered(st, r) ==
    IF st.records[r].model = None
      THEN [st EXCEPT !.calls = Append(@, Unlinking(r, "done", None))]
      ELSE [st EXCEPT !.records = [@ EXCEPT ![r].model = None],
                      !.calls = Append(@, Unlinking(r, "pre", st.records[r].model)),
                      !.log = Append(@, MidEv("pre_unlink", r, Len(st.calls) + 1))]

\* record.unlink(), not awaited yet; the calls of one run are made on one
\* record and on its parent.
UnlinkCall(r) ==
    /\ Len(calls) + FramesOf(records, r) <= MaxUnlinks
    /\ calls # <<>> => r \in {calls[1].target, records[calls[1].target].parent}
    /\ records' = UnlinkEntered(MidHeap, r).records
    /\ calls' = UnlinkEntered(MidHeap, r).calls
    /\ last' = UnlinkEntered(MidHeap, r).log
    /\ UNCHANGED <<tables, notMid>>

\* The pre hooks have settled: rejected, the call rejects; resolved, the
\* DELETE is sent and awaited.
UnlinkAfterHooks(i, ok) ==
    /\ calls[i].pc = "pre"
    /\ calls' = [calls EXCEPT ![i].pc = IF ok THEN "delete" ELSE "failed"]
    /\ last' = IF ok THEN Append(last, MidEv("delete", calls[i].target, i)) ELSE last
    /\ UNCHANGED <<records, tables, notMid>>

\* The calls with the row of frame i deleted and frame i awaiting the unlink
\* of the parent, called up to its first suspension.
ParentUnlinked(i) ==
    UnlinkEntered([MidHeap EXCEPT !.calls = [@ EXCEPT ![i].pc = "parent",
                                                       ![i].waits = Len(calls) + 1]],
                  records[calls[i].target].parent)

\* The DELETE has settled: rejected, the call rejects; resolved, the row is
\* gone and the unlink of the parent, if any, is called and awaited.
UnlinkAfterDelete(i, ok) ==
    /\ calls[i].pc = "delete"
    /\ LET r == calls[i].target
           id == IdOf(Current(records[r]))
       IN IF ~ok
            THEN /\ calls' = [calls EXCEPT ![i].pc = "failed"]
                 /\ UNCHANGED <<records, tables, last>>
            ELSE /\ tables' = [tables EXCEPT ![calls[i].model] =
                                  IF Has(@, id) THEN Remove(@, id) ELSE @]
                 /\ IF records[r].parent # 0
                      THEN /\ records' = ParentUnlinked(i).records
                           /\ calls' = ParentUnlinked(i).calls
                           /\ last' = ParentUnlinked(i).log
                      ELSE /\ calls' = [calls EXCEPT ![i].pc = "post"]
                           /\ last' = Append(last, MidEv("post_unlink", r, i))
                           /\ UNCHANGED records
    /\ UNCHANGED notMid

\* The unlink of the parent has settled.
UnlinkAfterParent(i) ==
    /\ calls[i].pc = "parent"
    /\ calls[calls[i].waits].pc \in {"done", "failed"}
    /\ IF calls[calls[i].waits].pc = "failed"
         THEN /\ calls' = [calls EXCEPT ![i].pc = "failed"]
              /\ UNCHANGED last
         ELSE /\ calls' = [calls EXCEPT ![i].pc = "post"]
              /\ last' = Append(last, MidEv("post_unlink", calls[i].target, i))
    /\ UNCHANGED <<records, tables, notMid>>

\* The post hooks have settled: resolved, the record leaves the identity map
\* and the call resolves.
UnlinkAfterPost(i, ok) ==
    /\ calls[i].pc = "post"
    /\ calls' = [calls EXCEPT ![i].pc = IF ok THEN "done" ELSE "failed"]
    /\ models' = IF ok
                   THEN [models EXCEPT ![calls[i].model].entities =
                           IF Has(@, IdOf(Current(records[calls[i].target])))
                             THEN Remove(@, IdOf(Current(records[calls[i].target])))
                             ELSE @]
                   ELSE models
    /\ UNCHANGED <<records, tables, last, cfg, req, thrown, context, repoState, ctxLast,
                   cacheVars>>

\* The keys of the identity map of model m whose record has _model null.
DetachedKeys(ms, recs, m) ==
    {id \in DOMAIN ms[m].entities : recs[ms[m].entities[id]].model = None}

\* Model.flush with no dirty entity: the loop reads this._model.name for an
\* entity whose _model is null, and a Model has no _model.
ModelFlushOutcome(ms, recs, m) ==
    IF DetachedKeys(ms, recs, m) # {} THEN "TypeError" ELSE "resolved"

\* Repository.flush: await model.flush() for each model.
RepositoryFlushOutcome(ms, recs) ==
    IF \E m \in Models : ModelFlushOutcome(ms, recs, m) = "TypeError"
      THEN "TypeError" ELSE "resolved"

Flushes(log) == {k \in 1..Len(log) : log[k].ev \in {"model_flush", "repo_flush"}}

\* await Model.flush()
ModelFlushNow(m) ==
    /\ Cardinality(Flushes(last)) < MaxModelFlushes
    /\ last' = Append(last, [ev |-> "model_flush", rec |-> 0, payload |-> 0, model |-> m,
                             outcome |-> ModelFlushOutcome(models, records, m),
                             detached |-> DetachedKeys(models, records, m) # {}])
    /\ UNCHANGED <<records, tables, calls, notMid>>

\* await repository.flush()
RepositoryFlushNow ==
    /\ Cardinality(Flushes(last)) < MaxModelFlushes
    /\ last' = Append(last, [ev |-> "repo_flush", rec |-> 0, payload |-> 0, model |-> None,
                             outcome |-> RepositoryFlushOutcome(models, records),
                             detached |-> \E m \in Models :
                                             DetachedKeys(models, records, m) # {}])
    /\ UNCHANGED <<records, tables, calls, notMid>>

UnlinkNext ==
    \/ \E r \in RecordIds : UnlinkCall(r)
    \/ \E i \in 1..Len(calls), ok \in BOOLEAN : UnlinkAfterHooks(i, ok)
    \/ \E i \in 1..Len(calls), ok \in BOOLEAN : UnlinkAfterDelete(i, ok)
    \/ \E i \in 1..Len(calls) : UnlinkAfterParent(i)
    \/ \E i \in 1..Len(calls), ok \in BOOLEAN : UnlinkAfterPost(i, ok)
    \/ \E m \in Models : ModelFlushNow(m)
    \/ RepositoryFlushNow

UnlinkHeapInit ==
    /\ records = Loaded.records
    /\ models = Loaded.models
    /\ tables = [m \in Models |->
                   IF m = "Base"
                     THEN (1 :> [id |-> 1, title |-> "t1"])
                            @@ (2 :> [id |-> 2, title |-> "t1", _inherit |-> "ChildA"])
                   ELSE IF m = "ChildA" THEN (2 :> [id |-> 2, name |-> "n1"])
                   ELSE EmptyObj]
    /\ calls = <<>>
    /\ last = <<>>

InitUnlink == ScopeInit /\ CtxInit /\ UnlinkHeapInit /\ CacheOff /\ TxOff

SpecUnlink == InitUnlink /\ [][UnlinkNext]_vars

(***************************************************************************)
(* Scope composition and request execution on one model.                   *)
(***************************************************************************)
InitScope == ScopeInit /\ CtxInit /\ HeapInit /\ IdInit /\ FlushInit /\ CacheOff /\ TxOff

SpecScope == InitScope /\ [][ScopeNext]_vars

(***************************************************************************)
(* Context operations on a repository and the transactions begun from it.  *)
(***************************************************************************)
InitContext == ScopeInit /\ CtxInit /\ HeapInit /\ IdInit /\ FlushInit /\ CacheOff /\ TxOff

SpecContext == InitContext /\ [][ContextNext]_vars

(***************************************************************************)
(* allocate and create calls on the models of one repository.              *)
(***************************************************************************)
InitIdentity == ScopeInit /\ CtxInit /\ HeapInit /\ IdInit /\ FlushInit /\ CacheOff /\ TxOff

SpecIdentity == InitIdentity /\ [][IdentityNext]_vars

(***************************************************************************)
(* flush calls, one after the other, on records with pending changes.      *)
(***************************************************************************)
InitFlush == ScopeInit /\ CtxInit /\ FlushHeapInit /\ IdInit /\ FlushInit /\ CacheOff /\ TxOff

SpecFlush == InitFlush /\ [][FlushNext]_vars

(***************************************************************************)
(* Requests for parametrized scopes on one model.                          *)
(***************************************************************************)
InitParam == ParamInit /\ CtxInit /\ HeapInit /\ IdInit /\ FlushInit /\ CacheOff /\ TxOff

SpecParam == InitParam /\ [][ParamNext]_vars

(***************************************************************************)
(* Requests on one model, awaited while time passes and the model's cache  *)
(* is invalidated.                                                         *)
(***************************************************************************)
InitCache == ScopeInit /\ CtxInit /\ HeapInit /\ IdInit /\ FlushInit /\ CacheInit /\ TxOff

SpecCache == InitCache /\ [][CacheNext]_vars

(***************************************************************************)
(* write calls, one after the other, on records with pending changes.      *)
(***************************************************************************)
InitWrite == ScopeInit /\ CtxInit /\ FlushHeapInit /\ IdInit /\ FlushInit /\ CacheOff /\ TxOff

SpecWrite == InitWrite /\ [][WriteNext]_vars

(***************************************************************************)
(* Properties of scope composition and request execution.                  *)
(***************************************************************************)
\* The scope definitions a resolved request applied, in application order.
AppliedDefs(c, r) ==
    (IF r.withDefault /\ HasDefault(c) THEN <<c.default>> ELSE <<>>)
      \o [i \in 1..Len(r.scopeRequests) |-> c.scopes[r.scopeRequests[i]]]

DefaultFilters(c) == c.builder /\ HasDefault(c) /\ Has(c.default, "where")

\* C6: on a model with a default scope, the rows returned for a Request built
\* by query(), where() or scope(...) all satisfy the default scope's where,
\* unless unscoped() was called on it before execution; a Request built by
\* Model.unscoped() returns every row, those the default scope excludes too.
C6_DefaultScopeApplied ==
    (DefaultFilters(cfg) /\ req.outcome.status = "rows") =>
        /\ (req.kind \in {"query", "where", "scope"} /\ req.withDefault)
              => \A row \in req.outcome.rows : Matches(row, cfg.default.where)
        /\ req.kind = "unscoped" => req.outcome.rows = Rows

\* C7: each of cache, order, limit, offset and attributes of the merged options
\* is the value of the last applied scope (default scope first, then the named
\* scopes in request order) that defines it, and is absent when none does.
C7_LastAppliedWins ==
    req.resolution.ok =>
        LET defs == AppliedDefs(cfg, req)
            opts == req.resolution.opts
        IN \A k \in LastWinsKeys :
             LET defining == {i \in 1..Len(defs) : Has(defs[i], k)}
             IN IF defining = {} THEN ~Has(opts, k)
                ELSE Has(opts, k) /\ opts[k] = defs[Max(defining)][k]

\* scope('A', 'B') resolved to B's limit although A, applied first, sets another.
C7_Witness ==
    /\ req.resolution.ok
    /\ req.scopeRequests = <<"A", "B">>
    /\ Has(cfg.scopes["A"], "limit") /\ Has(cfg.scopes["B"], "limit")
    /\ cfg.scopes["A"].limit # cfg.scopes["B"].limit
    /\ req.resolution.opts.limit = cfg.scopes["B"].limit

\* C8: the merged where predicate accepts exactly the rows that every applied
\* scope's where clause accepts.
C8_WhereIsConjunction ==
    req.resolution.ok =>
        LET defs == AppliedDefs(cfg, req)
            opts == req.resolution.opts
            filtering == {i \in 1..Len(defs) : Has(defs[i], "where")}
        IN IF filtering = {} THEN ~Has(opts, "where")
           ELSE /\ Has(opts, "where")
                /\ \A row \in Rows :
                      Matches(row, opts.where) <=> \A i \in filtering : Matches(row, defs[i].where)

Unregistered(c, r) == {i \in 1..Len(r.scopeRequests) : ~Has(c.scopes, r.scopeRequests[i])}

\* C9: the await of a Request built by Model.scope(...) that names an
\* unregistered scope (on a model with a scope builder) rejects with the
\* "Scope '<name>' not defined on model '<Model>'" error, for the first
\* unregistered name in request order.
C9_UndefinedScopeRejects ==
    (req.kind = "scope" /\ req.awaits = 1 /\ Unregistered(cfg, req) # {}) =>
        /\ req.outcome.status = "rejected"
        /\ req.outcome.error =
             [kind |-> "ScopeNotDefined",
              scope |-> req.scopeRequests[Min(Unregistered(cfg, req))],
              model |-> ModelName]

\* A registered scope precedes the unregistered one and the await rejected.
C9_Witness ==
    /\ req.kind = "scope" /\ req.awaits = 1
    /\ Len(req.scopeRequests) = 2
    /\ Unregistered(cfg, req) = {2}
    /\ req.outcome.status = "rejected"

\* C10: Model.scope(...) on a model without scope builder throws at call time
\* "Model '<name>' has no scopes defined" and hands out no Request.
C10_NoScopesThrows ==
    (thrown.call = "scope" /\ ~thrown.hadBuilder) =>
        /\ thrown.kind = "NoScopes"
        /\ thrown.model = ModelName
        /\ req = NoRequest

C10_Witness == thrown.kind = "NoScopes" /\ cfg.registered > 0

RECURSIVE Chain(_, _)
Chain(recs, r) == IF r = 0 THEN {} ELSE {r} \cup Chain(recs, recs[r].parent)

\* C1: when only allocate(data) calls have been made, all on one model, and
\* the identity map of that model holds a record for the key of data, the call
\* returns that record, creates no record, leaves the map entry as it was and
\* has merged the data into the record (and its parents) through sync.
C1_IdentityMapUnique ==
    (/\ last.op = "allocate" /\ last.thrown = None
     /\ last.allocateOnly /\ last.callee = last.model
     /\ last.prior # 0) =>
        /\ last.result = last.prior
        /\ Len(records) = last.heapBefore
        /\ models[last.model].entities[IdOf(last.data)] = last.prior
        /\ \A x \in Chain(records, last.result) :
             \A f \in (Fields(models, records[x].model) \cap DOMAIN last.data) \ {"id"} :
                 Has(records[x].data, f) /\ records[x].data[f] = last.data[f]

\* C2: when create(data) has resolved with a record r whose primary key is k,
\* the identity map of the model maps k to r.
C2_CreateRegisters ==
    (last.op = "create" /\ last.thrown = None) =>
        /\ Has(models[last.model].entities, IdOf(records[last.result].data))
        /\ models[last.model].entities[IdOf(records[last.result].data)] = last.result

(***************************************************************************)
(* Properties of flush.                                                    *)
(***************************************************************************)
\* The stored columns of a record that have a pending change.
PendingStored(rec) == {f \in DOMAIN rec.changes : Stored(f)}

\* The records of the chain of r that a flush of r has to write.
Writers(recs, r) ==
    {x \in Chain(recs, r) : recs[x].isDirty /\ PendingStored(recs[x]) # {}}

\* Two successive entries of calls are flushes of the same record, both resolved.
Repeated(i) ==
    /\ i > 1
    /\ calls[i - 1].kind = "record" /\ calls[i].kind = "record"
    /\ calls[i - 1].target = calls[i].target
    /\ calls[i - 1].thrown = None /\ calls[i].thrown = None

\* C3 as stated: a flush of a record that is not dirty performs no storage
\* operation, and two successive flushes of a dirty record perform exactly
\* one storage write in total.
C3_FlushTwiceWritesOnce ==
    \A i \in 1..Len(calls) :
        calls[i].kind = "record" =>
            /\ ~calls[i].before[calls[i].target].isDirty => calls[i].ops = <<>>
            /\ (Repeated(i) /\ calls[i - 1].before[calls[i].target].isDirty)
                  => Len(calls[i - 1].ops) + Len(calls[i].ops) = 1

\* C3, amended: a flush of a record performs no storage operation when neither
\* the record nor a parent of it is dirty; a flush that resolves has issued
\* exactly one UPDATE for each record of the chain that was dirty with a
\* pending change of a stored column, and none for the others; and a flush
\* that directly follows a resolved flush of the same record issues none.
C3_FlushWritesOncePerDirtyRecord ==
    \A i \in 1..Len(calls) :
        calls[i].kind = "record" =>
            LET c == calls[i]
                chain == Chain(c.before, c.target)
                writers == Writers(c.before, c.target)
            IN /\ (\A x \in chain : ~c.before[x].isDirty)
                     => (c.ops = <<>> /\ c.thrown = None)
               /\ c.thrown = None =>
                     /\ Len(c.ops) = Cardinality(writers)
                     /\ \A x \in writers :
                          \E j \in 1..Len(c.ops) :
                              c.ops[j] = [model |-> c.before[x].model,
                                          id |-> IdOf(c.before[x].data), ok |-> TRUE]
               /\ Repeated(i) => c.ops = <<>>

\* A child record dirty together with its parent was flushed twice: two
\* UPDATEs by the first flush, none by the second.
C3_Witness ==
    \E i \in 1..Len(calls) :
        /\ Repeated(i)
        /\ calls[i - 1].before[calls[i].target].isDirty
        /\ Len(calls[i - 1].ops) = 2
        /\ calls[i].ops = <<>>

\* C4: when the last flush of a dirty record was aborted by a failed
\* validation or a failed storage write, the record is still dirty and its
\* pending changes are still in _changes.
C4_FailedFlushStaysDirty ==
    (/\ Len(calls) > 0
     /\ calls[Len(calls)].kind = "record"
     /\ calls[Len(calls)].thrown # None
     /\ calls[Len(calls)].before[calls[Len(calls)].target].isDirty) =>
        /\ records[calls[Len(calls)].target].isDirty
        /\ records[calls[Len(calls)].target].changes
             = calls[Len(calls)].before[calls[Len(calls)].target].changes

(***************************************************************************)
(* Properties of parametrized scopes.                                      *)
(***************************************************************************)
\* The arguments a scope function is to receive after the query context:
\* the elements of an array, or the single value that is not an array.
ExpectedReceived(scopeReq) ==
    IF scopeReq.form = "string" THEN <<>>
    ELSE IF scopeReq.args.t = "array" THEN scopeReq.args.items
    ELSE <<scopeReq.args>>

RECURSIVE ExpectedInvocations(_, _)
ExpectedInvocations(scopes, scopeRequests) ==
    IF scopeRequests = <<>> THEN <<>>
    ELSE IF Has(scopes[Head(scopeRequests).name], "fn")
      THEN <<[name |-> Head(scopeRequests).name,
              received |-> ExpectedReceived(Head(scopeRequests))]>>
             \o ExpectedInvocations(scopes, Tail(scopeRequests))
    ELSE ExpectedInvocations(scopes, Tail(scopeRequests))

RECURSIVE ExpectedOptions(_, _, _)
ExpectedOptions(scopes, merged, scopeRequests) ==
    IF scopeRequests = <<>> THEN merged
    ELSE ExpectedOptions(scopes,
             MergeOptions(merged,
                 NormalizeScopeDefinition(scopes[Head(scopeRequests).name],
                                          ExpectedReceived(Head(scopeRequests)))),
             Tail(scopeRequests))

\* Every request of the list passes its arguments as an array (or none).
ArrayArgsOnly(scopeRequests) ==
    \A i \in 1..Len(scopeRequests) :
        scopeRequests[i].form = "object" => scopeRequests[i].args.t = "array"

\* C11: an awaited request for registered scopes resolves having called each
\* scope function with the elements of its array argument, or with the one
\* value given in place of an array, and having merged the options the
\* functions returned like those of object scopes.
C11_FunctionScopeArguments ==
    (req.kind = "scope" /\ Has(req, "scopesApplied") /\ Has(cfg, "target")
        /\ req.scopesApplied) =>
        /\ req.resolution.ok
        /\ req.resolution.invoked = ExpectedInvocations(cfg.scopes, req.scopeRequests)
        /\ req.resolution.opts = ExpectedOptions(cfg.scopes, EmptyObj, req.scopeRequests)

\* The array form alone: the elements are passed positionally and the
\* returned options are merged like those of object scopes.
ArrayArgumentsPositional ==
    (req.kind = "scope" /\ Has(cfg, "target") /\ req.scopesApplied
        /\ ArrayArgsOnly(req.scopeRequests)) =>
        /\ req.resolution.ok
        /\ req.resolution.invoked = ExpectedInvocations(cfg.scopes, req.scopeRequests)
        /\ req.resolution.opts = ExpectedOptions(cfg.scopes, EmptyObj, req.scopeRequests)

C13_RequestExecutesOnce ==
    \A i \in 1..Len(pool) :
        /\ pool[i].executions <= 1
        /\ \A k \in 1..Len(pool[i].outcomes) :
               pool[i].outcomes[k].value = pool[i].outcomes[1].value

\* C14: the cache never answers with an entry that was stored before the
\* invalidation marker given to get, whatever its TTL; so a result cached
\* before Model.invalidateCache() is not served afterwards.
C14_MarkerEvictsEarlierEntries ==
    \A i \in 1..Len(pool) :
        \A k \in 1..Len(pool[i].outcomes) :
            (pool[i].outcomes[k].source = "cache" /\ pool[i].outcomes[k].marker # 0) =>
                pool[i].outcomes[k].storedAt >= pool[i].outcomes[k].marker

\* The query opted into caching: .cache(ttl) was called or a scope has a
\* cache option.
OptedIn(r) == r.called # {} \/ r.scopeCache # {}

\* C15: on a caching model that is not invalidated, a request built like one
\* whose result has been stored, opted into caching and awaited after the
\* store and before its expiry, resolves from the cache without starting a
\* storage query.
C15_IdenticalRequestHitsCache ==
    \A i, j \in 1..Len(pool) :
        (/\ i # j
         /\ ModelCaches(cmodel)
         /\ cmodel.cacheInvalidateMs = 0
         /\ pool[i].built = pool[j].built
         /\ pool[i].stored # <<>>
         /\ OptedIn(pool[j])
         /\ pool[j].thens = 1
         /\ pool[j].firstThen > pool[i].stored[1].at
         /\ pool[j].firstThen <= pool[i].stored[1].expires) =>
            /\ pool[j].executions = 0
            /\ Len(pool[j].outcomes) = 1
            /\ pool[j].outcomes[1].source = "cache"

\* C16: a request on which cache(0) was called neither takes its result from
\* the cache nor stores it there.
C16_ZeroTtlDisablesCaching ==
    \A i \in 1..Len(pool) :
        (pool[i].called = {0} /\ pool[i].scopeCache = {}) =>
            /\ pool[i].stored = <<>>
            /\ \A k \in 1..Len(pool[i].outcomes) : pool[i].outcomes[k].source # "cache"

(***************************************************************************)
(* Properties of Record.write.                                             *)
(***************************************************************************)
\* The fields declared by the model of record r or by one of its ancestors.
RECURSIVE ChainFields(_, _, _)
ChainFields(recs, ms, r) ==
    Fields(ms, recs[r].model)
        \cup (IF recs[r].parent # 0 THEN ChainFields(recs, ms, recs[r].parent) ELSE {})

\* The record of the chain of r that a key of data is assigned to: the first
\* one, from r up, whose model declares the key (0: none).
RECURSIVE Assignee(_, _, _, _)
Assignee(recs, ms, r, k) ==
    IF k \in Fields(ms, recs[r].model) THEN r
    ELSE IF recs[r].parent # 0 THEN Assignee(recs, ms, recs[r].parent, k)
    ELSE 0

\* What a write call must have done, given the call c just completed from
\* the records `before` and the tables `tbls`.
WriteDone(c, before, tbls, after, tblsAfter) ==
    /\ \A k \in DOMAIN c.data :
          Assignee(before, models, c.target, k) # 0 =>
              Current(after[Assignee(before, models, c.target, k)])[k] = c.data[k]
    /\ (DOMAIN c.data) \ ChainFields(before, models, c.target) # {} =>
          /\ c.thrown = "NoSuchField"
          /\ c.unknown = (DOMAIN c.data) \ ChainFields(before, models, c.target)
          /\ c.flushes = <<>>
          /\ c.ops = <<>>
    /\ (DOMAIN c.data) \subseteq ChainFields(before, models, c.target) =>
          /\ c.thrown # "NoSuchField"
          /\ c.stage = "flush" \/ (c.stage = "parent" /\ c.thrown # None)
          /\ c.stage = "flush" => c.flushes[Len(c.flushes)] = c.target
    /\ c.data = EmptyObj =>
          /\ after = FlushRecord([records |-> before, tables |-> tbls, ops |-> <<>>,
                                  thrown |-> None], models, c.target, c.failing).records
          /\ tblsAfter = FlushRecord([records |-> before, tables |-> tbls, ops |-> <<>>,
                                      thrown |-> None], models, c.target, c.failing).tables
          /\ c.ops = FlushRecord([records |-> before, tables |-> tbls, ops |-> <<>>,
                                  thrown |-> None], models, c.target, c.failing).ops
          /\ c.thrown = FlushRecord([records |-> before, tables |-> tbls, ops |-> <<>>,
                                     thrown |-> None], models, c.target, c.failing).thrown
          /\ c.flushes = <<c.target>>

\* C17: write assigns every key of data to the record of the chain whose
\* model declares it, rejects naming the keys that no model of the chain
\* declares, and otherwise ends by flush() on the record unless the write of
\* the parent rejected; write({}) and write() do exactly what flush() does.
C17_WriteAssignsDelegatesFlushes ==
    [][Len(calls') = Len(calls) + 1 =>
          WriteDone(calls'[Len(calls')], records, tables, records', tables')]_vars

\* A write on a child record assigned a child field and a parent field and
\* flushed both records.
C17_Witness ==
    /\ Len(calls) > 0
    /\ calls[Len(calls)].kind = "write"
    /\ records[calls[Len(calls)].target].parent # 0
    /\ DOMAIN calls[Len(calls)].data = {"title", "name"}
    /\ calls[Len(calls)].thrown = None
    /\ Len(calls[Len(calls)].ops) = 2

(***************************************************************************)
(* Properties of Repository.transaction.                                   *)
(***************************************************************************)
\* The positions of the log at which ev happened.
Positions(t, ev) == {i \in DOMAIN t.log : t.log[i].ev = ev}

TxEnded == tx.pc \in {"returned", "thrown"}

\* C18: transaction flushes txRepo only after work has resolved and commits
\* only after that flush; it returns only after a successful commit, and then
\* what work resolved with; when work, the flush or the commit raised an error
\* the transaction is rolled back and the call throws that same error, and it
\* throws in no other case.
C18_TransactionCommitsOrRollsBack ==
    /\ \A f \in Positions(tx, "flush") : \E r \in Positions(tx, "resolve") : r < f
    /\ \A c \in Positions(tx, "commit") : \E f \in Positions(tx, "flush") : f < c
    /\ tx.returned # None => tx.pc = "returned"
    /\ tx.pc = "returned" =>
         /\ tx.returned = tx.result
         /\ tx.raised = None
         /\ Positions(tx, "commit") # {}
         /\ Positions(tx, "rollback") = {}
    /\ (tx.raised # None /\ TxEnded) =>
         /\ tx.pc = "thrown"
         /\ tx.thrown = tx.raised
         /\ Positions(tx, "rollback") # {}
         /\ Positions(tx, "commit") = {}
    /\ tx.pc = "thrown" => tx.raised # None

\* A transaction whose work left a dirty record to the flush of txRepo has
\* committed and returned the result of work.
C18_Witness ==
    /\ tx.pc = "returned" /\ tx.returned = "done"
    /\ \E f \in Positions(tx, "flush"), s \in Positions(tx, "set"), c \in Positions(tx, "commit") :
         f < s /\ s < c

\* A transaction whose commit was rejected has rolled back and thrown.
CommitErrorRethrown ==
    tx.pc = "thrown" /\ tx.thrown = "CommitError" /\ Positions(tx, "resolve") # {}

\* The records created in the transaction, and those updated in it.
CreatedInTx == {key \in DOMAIN tx.recs : tx.recs[key].created}

UpdatedInTx == {key \in DOMAIN tx.recs : ~tx.recs[key].created /\ tx.recs[key].flushed}

\* After a commit on a caching model the entry of every record created or
\* updated in the transaction has been written after the commit.
WrittenAfterCommit ==
    (tx.pc = "returned" /\ ModelCaches(cmodel)) =>
        \A key \in CreatedInTx \cup UpdatedInTx :
            \E c \in Positions(tx, "commit"), s \in Positions(tx, "set") :
                c < s /\ tx.log[s].key = key

\* The entry of a record created in the transaction is written only after the
\* commit.
CreatedNotWrittenBeforeCommit ==
    \A s \in Positions(tx, "set") :
        tx.log[s].key \in CreatedInTx => \E c \in Positions(tx, "commit") : c < s

\* C19: on a caching model, every record created or updated inside a
\* transaction that commits has its entry-cache value written after the
\* commit, and the entry of a record created inside a transaction is never
\* written before the commit.
C19_EntryCacheWrittenAfterCommit ==
    WrittenAfterCommit /\ CreatedNotWrittenBeforeCommit

\* The same for the records the identity map of the model holds and that were
\* not flushed inside the transaction before the commit.
RegisteredWrittenAfterCommit ==
    (tx.pc = "returned" /\ ModelCaches(cmodel)) =>
        \A i \in DOMAIN tx.entities :
            tx.recs[tx.entities[i]].flushed =>
                \E c \in Positions(tx, "commit"), s \in Positions(tx, "set") :
                    c < s /\ tx.log[s].key = tx.entities[i]

(***************************************************************************)
(* Properties of deferred hydration.                                       *)
(***************************************************************************)
\* The lookups that settled without finding a row.
SoftMisses == {i \in DOMAIN calls : calls[i].kind = "lookup" /\ calls[i].lookup # None
                                     /\ ~calls[i].found}

\* C20: when allocate was given only a primary key and the deferred lookup
\* finds nothing, the readiness promise resolves, the record ends ready, and
\* the primary key of the record is cleared: a caller reading it gets nothing.
C20_SoftMissClearsKey ==
    \A i \in SoftMisses :
        /\ calls[i].promise = "resolved"
        /\ calls[i].ready
        /\ calls[i].idAfter = {}

\* The part of it that concerns the promise and the readiness.
SoftMissResolvesReady ==
    \A i \in SoftMisses : calls[i].promise = "resolved" /\ calls[i].ready

\* A lookup that found nothing has settled.
SoftMissSettled == SoftMisses # {}

(***************************************************************************)
(* Properties of discriminator routing.                                    *)
(***************************************************************************)
\* Whether model m has a discriminator field once it is initialized.
HasDiscriminator(m) == ModelInit(models, m)[m].refField

\* What a call of allocate(data) on the model the discriminator names leaves.
ChildAllocated(m, data) ==
    Allocate([Heap EXCEPT !.models = ModelInit(models, m)], DiscValue(data), data)

\* C21: on a model with a discriminator field, allocate(data) throws when data
\* has no non-empty discriminator value and then leaves the identity maps and
\* the records as they were; otherwise it returns the record the allocate of
\* the child model named by the value returns, a record of that child.  With
\* ignoreDiscriminator = true it neither throws nor routes: it returns the
\* entry of its own identity map or a new record of its own model.
C21_DiscriminatorRouting ==
    [][/\ (/\ last'.op = "allocate"
            /\ RouteAllocate(last'.model, last'.data, FALSE)
            /\ HasDiscriminator(last'.model)
            /\ DiscValue(last'.data) = None) =>
              /\ last'.thrown = "NoDiscriminator"
              /\ records' = records
              /\ \A n \in Models : models'[n].entities = models[n].entities
       /\ (/\ last'.op = "allocate"
            /\ RouteAllocate(last'.model, last'.data, FALSE)
            /\ HasDiscriminator(last'.model)
            /\ DiscValue(last'.data) # None) =>
              /\ last'.thrown = None
              /\ last'.result = ChildAllocated(last'.model, last'.data).result
              /\ records' = ChildAllocated(last'.model, last'.data).records
              /\ models' = ChildAllocated(last'.model, last'.data).models
              /\ records'[last'.result].model = DiscValue(last'.data)
       /\ (/\ last'.op = "allocateIgnoring"
            /\ RouteAllocate(last'.model, last'.data, TRUE)) =>
              /\ last'.thrown = None
              /\ IF last'.prior # 0
                   THEN last'.result = last'.prior /\ Len(records') = Len(records)
                   ELSE /\ last'.result = Len(records')
                        /\ records'[last'.result].model = last'.model
       ]_vars

\* Base.allocate routed a call to ChildA.
C21_Witness ==
    /\ last.op = "allocate" /\ last.model = "Base" /\ last.thrown = None
    /\ DiscValue(last.data) = "ChildA"
    /\ last.result # 0 /\ records[last.result].model = "ChildA"

\* allocate failed for want of a discriminator value.
RouteRefused == last.op = "allocate" /\ last.thrown = "NoDiscriminator"

\* allocate(data, true) on a model with a discriminator built a record of it.
RouteIgnored ==
    /\ last.op = "allocateIgnoring" /\ last.model = "Base" /\ models["Base"].refField
    /\ last.result # 0 /\ records[last.result].model = "Base"
    /\ DiscValue(last.data) = None

(***************************************************************************)
(* Properties of the order of the steps of flush, unlink and create.       *)
(***************************************************************************)
\* The place of a step in the order flush is to follow.
FlushRank(ev) ==
    CASE ev = "pre_update" -> 1
      [] ev = "pre_validate" -> 2
      [] ev = "field_pre_update" -> 3
      [] ev = "await_field_pre_update" -> 4
      [] ev \in {"validate", "serialize"} -> 5
      [] ev = "update" -> 6
      [] ev = "reconcile" -> 7
      [] ev = "cache_set" -> 8
      [] ev = "field_post_update" -> 9
      [] ev = "await_field_post_update" -> 10
      [] ev = "post_update" -> 11
      [] ev = "emit" -> 12
      [] ev = "invalidate" -> 13

\* The events of record r in a log.
Of(log, r) == {i \in DOMAIN log : log[i].rec = r}

Named(log, r, ev) == {i \in Of(log, r) : log[i].ev = ev}

\* The steps every effective flush that does not throw takes once.
FlushAlways ==
    {"pre_update", "pre_validate", "await_field_pre_update", "reconcile",
     "await_field_post_update", "post_update", "emit"}

\* The flush of record r inside the call c was effective and is ordered:
\* everything of the parent comes first, the steps of r follow the order, each
\* of the steps of a full flush happens once, the UPDATE is sent exactly when
\* stored fields had pending changes, and the cache receives the values the
\* record holds after the flush.
FlushOrdered(c, r, after) ==
    /\ \A i \in Of(c.log, r), j \in DOMAIN c.log :
         (c.before[r].parent # 0 /\ c.log[j].rec = c.before[r].parent) => j < i
    /\ \A i, j \in Of(c.log, r) : i < j => FlushRank(c.log[i].ev) <= FlushRank(c.log[j].ev)
    /\ c.thrown = None =>
         /\ \A ev \in FlushAlways : Cardinality(Named(c.log, r, ev)) = 1
         /\ Cardinality(Named(c.log, r, "update")) =
              (IF DOMAIN UpdateOf(c.modelsBefore, c.before[r]) # {} THEN 1 ELSE 0)
         /\ Cardinality(Named(c.log, r, "cache_set")) = (IF c.env.cache THEN 1 ELSE 0)
         /\ Cardinality(Named(c.log, r, "invalidate")) = (IF c.env.invalidation THEN 1 ELSE 0)
         /\ \A i \in Named(c.log, r, "cache_set") :
                c.log[i].data = ToRawJSON(c.modelsBefore, after[r])
         /\ after[r].changes = EmptyObj /\ ~after[r].isDirty
         /\ after[r].data = Current(c.before[r])

\* The records of the chain of r that a flush of r finds dirty, r included.
RECURSIVE DirtyChain(_, _)
DirtyChain(recs, r) ==
    (IF recs[r].isDirty THEN {r} ELSE {})
      \cup (IF recs[r].parent # 0 THEN DirtyChain(recs, recs[r].parent) ELSE {})

\* C22: within one effective Record.flush the steps occur in this order: the
\* flush of the parent; pre_update, pre_validate; the field pre_update hooks,
\* started and jointly awaited; validation and the payload; the UPDATE, only
\* when the payload is not empty; reconciliation; the cache write with the
\* reconciled values; the field post_update hooks; post_update; the 'update'
\* event; the invalidation of the marker if configured.
C22_FlushStepOrder ==
    [][\A r \in RecordIds :
         (/\ Len(calls') = Len(calls) + 1
          /\ calls'[Len(calls')].kind = "flush"
          /\ r \in DirtyChain(records, calls'[Len(calls')].target)) =>
            /\ (calls'[Len(calls')].thrown = None \/ Of(calls'[Len(calls')].log, r) # {})
                 => FlushOrdered(calls'[Len(calls')], r, records')
            /\ \A i \in DOMAIN calls'[Len(calls')].log :
                 calls'[Len(calls')].log[i].rec \in DirtyChain(records, calls'[Len(calls')].target)
       ]_vars

\* A child and its parent were both dirty, the model caches and invalidates,
\* and the flush of the child went through.
C22_Witness ==
    /\ calls # <<>>
    /\ calls[Len(calls)].kind = "flush" /\ calls[Len(calls)].thrown = None
    /\ calls[Len(calls)].env.cache /\ calls[Len(calls)].env.invalidation
    /\ calls[Len(calls)].before[calls[Len(calls)].target].parent # 0
    /\ Cardinality(DirtyChain(calls[Len(calls)].before, calls[Len(calls)].target)) = 2
    /\ Cardinality(Named(calls[Len(calls)].log, calls[Len(calls)].target, "update")) = 1

\* The place of a step in the order of unlink; fieldsFirst puts the field
\* post_unlink hooks before the post_unlink of the record.
UnlinkRank(ev, fieldsFirst) ==
    CASE ev = "pre_unlink" -> 1
      [] ev = "pre_validate" -> 2
      [] ev = "field_pre_unlink" -> 3
      [] ev = "await_field_pre_unlink" -> 4
      [] ev = "delete" -> 5
      [] ev = "field_post_unlink" -> IF fieldsFirst THEN 7 ELSE 9
      [] ev = "await_field_post_unlink" -> IF fieldsFirst THEN 8 ELSE 10
      [] ev = "post_unlink" -> IF fieldsFirst THEN 9 ELSE 8
      [] ev = "emit" -> 11
      [] ev = "cache_expire" -> 12
      [] ev = "invalidate" -> 13
      [] ev = "entities_delete" -> 14

\* The steps every unlink that does not throw takes once.
UnlinkAlways ==
    {"pre_unlink", "pre_validate", "await_field_pre_unlink", "delete",
     "await_field_post_unlink", "post_unlink", "emit", "entities_delete"}

\* The unlink of record r inside the call c is ordered: its steps follow the
\* order, the unlink of its parent lies between its DELETE and its post hooks,
\* its model reference is cleared, and when nothing throws each step happens
\* once and neither the row nor the identity-map entry is left.
UnlinkOrdered(c, r, fieldsFirst, after, tbls, ms) ==
    /\ \A i, j \in Of(c.log, r) :
         i < j => UnlinkRank(c.log[i].ev, fieldsFirst) <= UnlinkRank(c.log[j].ev, fieldsFirst)
    /\ \A i \in Of(c.log, r), j \in DOMAIN c.log :
         (c.before[r].parent # 0 /\ c.log[j].rec = c.before[r].parent) =>
            IF UnlinkRank(c.log[i].ev, fieldsFirst) <= 5 THEN i < j ELSE j < i
    /\ after[r].model = None
    /\ c.thrown = None =>
         /\ \A ev \in UnlinkAlways : Cardinality(Named(c.log, r, ev)) = 1
         /\ Cardinality(Named(c.log, r, "cache_expire")) = (IF c.env.cache THEN 1 ELSE 0)
         /\ Cardinality(Named(c.log, r, "invalidate")) = (IF c.env.invalidation THEN 1 ELSE 0)
         /\ ~Has(tbls[c.before[r].model], IdOf(c.before[r].data))
         /\ ~Has(ms[c.before[r].model].entities, IdOf(c.before[r].data))

\* The records of the chain of r that an unlink of r reaches.
RECURSIVE LinkedChain(_, _)
LinkedChain(recs, r) ==
    IF recs[r].model = None THEN {}
    ELSE {r} \cup (IF recs[r].parent # 0 THEN LinkedChain(recs, recs[r].parent) ELSE {})

UnlinkStepsOrdered(fieldsFirst) ==
    \A r \in RecordIds :
        (/\ Len(calls') = Len(calls) + 1
         /\ calls'[Len(calls')].kind = "unlink"
         /\ r \in LinkedChain(records, calls'[Len(calls')].target)
         /\ (calls'[Len(calls')].thrown = None \/ Of(calls'[Len(calls')].log, r) # {})) =>
            UnlinkOrdered(calls'[Len(calls')], r, fieldsFirst, records', tables', models')

\* C23: Record.unlink clears the model reference of the record before its
\* first suspension point and then performs, in this order: pre_unlink,
\* pre_validate, the field pre_unlink hooks (jointly awaited), the DELETE, the
\* unlink of the parent, the field post_unlink hooks, post_unlink of the
\* record, the 'unlink' event, the expiry of the cache entry, the invalidation
\* of the marker if configured, the removal from the identity map.
C23_UnlinkStepOrder == [][UnlinkStepsOrdered(TRUE)]_vars

\* The same with post_unlink of the record ahead of the field post_unlink
\* hooks.
UnlinkRecordHookFirst == [][UnlinkStepsOrdered(FALSE)]_vars

\* A record and its parent were unlinked and nothing threw.
UnlinkedWithParent ==
    /\ calls # <<>>
    /\ calls[Len(calls)].kind = "unlink" /\ calls[Len(calls)].thrown = None
    /\ calls[Len(calls)].before[calls[Len(calls)].target].parent # 0
    /\ Named(calls[Len(calls)].log,
             calls[Len(calls)].before[calls[Len(calls)].target].parent, "delete") # {}

\* The events that end the pre-hooks of an operation: the hooks of the record
\* and the joint await of the field hooks.
PreHookEnds == {"pre_update", "pre_create", "pre_validate",
                "await_field_pre_update", "await_field_pre_create"}

\* The events that start a field pre-hook.
PreHookStarts == {"field_pre_update", "field_pre_create"}

\* In the log, for record r of model m: each stored field is validated once,
\* after every pre-hook of the record has completed and before the field is
\* serialized.
ValidatedInTime(log, r, fs) ==
    \A k \in DOMAIN fs :
        Stored(fs[k]) =>
            /\ Cardinality({i \in Named(log, r, "validate") : log[i].field = fs[k]}) = 1
            /\ \A i \in Named(log, r, "validate"), j \in Of(log, r) :
                 (log[i].field = fs[k] /\ log[j].ev \in PreHookEnds \cup PreHookStarts) => j < i
            /\ \A i \in Named(log, r, "validate"), j \in Named(log, r, "serialize") :
                 (log[i].field = fs[k] /\ log[j].field = fs[k]) => i < j

\* The records an operation that went through has worked on.
Worked(c) == {c.log[i].rec : i \in {j \in DOMAIN c.log : c.log[j].ev \in {"pre_update", "pre_create"}}}

ValidatesOnce(kinds) ==
    (/\ Len(calls') = Len(calls) + 1
     /\ calls'[Len(calls')].kind \in kinds
     /\ calls'[Len(calls')].thrown = None) =>
        \A r \in Worked(calls'[Len(calls')]) :
            ValidatedInTime(calls'[Len(calls')].log, r,
                            FieldSeq(models', records'[r].model))

\* C24: in Record.flush and in Model.create the validate of each (stored)
\* field runs once per operation, only after all pre-hooks of the operation
\* have completed - pre_update / pre_create and pre_validate of the record and
\* the pre-hook of every field - and before the field is serialized.
C24_ValidateAfterPreHooks == [][ValidatesOnce({"flush", "create"})]_vars

\* The same for Record.flush alone.
FlushValidatesAfterPreHooks == [][ValidatesOnce({"flush"})]_vars

\* A create of a child model went through.
ChildCreated ==
    /\ calls # <<>>
    /\ calls[Len(calls)].kind = "create" /\ calls[Len(calls)].thrown = None
    /\ Cardinality(Worked(calls[Len(calls)])) = 2

(***************************************************************************)
(* Properties of Record.sync.                                              *)
(***************************************************************************)

\* What obj holds under k: {} when it holds nothing.
At(obj, k) == IF Has(obj, k) THEN {obj[k]} ELSE {}

\* The effect of sync(data) on one field of one record.
FieldSynced(before, after, fld, data) ==
    IF (Has(data, fld.name) \/ Has(data, fld.column))
         /\ ~(fld.primary /\ At(before.data, fld.column) \notin {{}, {""}})
      THEN /\ At(after.data, fld.column) =
                {Deserialize(IF Has(data, fld.name) THEN data[fld.name] ELSE data[fld.column])}
           /\ ~Has(after.changes, fld.column)
      ELSE /\ At(after.data, fld.column) = At(before.data, fld.column)
           /\ At(after.changes, fld.column) = At(before.changes, fld.column)

\* C25: sync(data) syncs the parent as well, and for every field of the model
\* that data holds - under the name of the field, else under its column -
\* stores the deserialized value in _data and drops the pending change of the
\* column, except that a primary key that is set is not overwritten; the other
\* columns keep their value and their pending change, and the record is dirty
\* afterwards exactly when pending changes remain.
C25_SyncOverwritesAndClears ==
    [][(Len(calls') = Len(calls) + 1 /\ calls'[Len(calls')].kind = "sync") =>
         \A q \in DOMAIN records :
            IF q \in Chain(records, calls'[Len(calls')].target)
              THEN /\ \A k \in DOMAIN SyncFields(records[q].model) :
                        FieldSynced(records[q], records'[q], SyncFields(records[q].model)[k],
                                    calls'[Len(calls')].data)
                   /\ DOMAIN records'[q].data \subseteq
                        DOMAIN records[q].data
                          \cup {SyncFields(records[q].model)[k].column :
                                  k \in DOMAIN SyncFields(records[q].model)}
                   /\ DOMAIN records'[q].changes \subseteq DOMAIN records[q].changes
                   /\ records'[q].isDirty = (DOMAIN records'[q].changes # {})
              ELSE records'[q] = records[q]
      ]_vars

\* A sync of the child overwrote a column of the parent given under the name
\* of the field, dropped its pending change and left another pending change.
C25_Witness ==
    /\ calls # <<>>
    /\ calls[Len(calls)].kind = "sync" /\ calls[Len(calls)].target = 3
    /\ Has(calls[Len(calls)].data, "title")
    /\ Has(calls[Len(calls)].before[2].changes, "title_col")
    /\ ~Has(records[2].changes, "title_col") /\ Has(records[2].changes, "note")
    /\ records[2].isDirty
    /\ records[2].data["title_col"] = Deserialize(calls[Len(calls)].data["title"])

(***************************************************************************)
(* Properties of the merge of include lists.                               *)
(***************************************************************************)
\* The include list of a scope as its definition is written.
DeclaredIncludes(n) ==
    IncludeTree(NormalizeIncludes(IncludeHeap, IncludeLists[n], 1, <<>>).heap,
                NormalizeIncludes(IncludeHeap, IncludeLists[n], 1, <<>>).result)

\* The pair an include option is identified by.
IncludePair(t) == <<t.relation, IF t.as = None THEN "" ELSE t.as>>

\* The lists concatenated in order and de-duplicated by pair: the first option
\* of a pair stays where it is, and the nested list of a later one is merged
\* into its nested list by the same rule.
RECURSIVE Deduplicated(_, _)
Deduplicated(kept, rest) ==
    IF rest = <<>> THEN kept
    ELSE IF \A j \in DOMAIN kept : IncludePair(kept[j]) # IncludePair(Head(rest))
      THEN Deduplicated(Append(kept, Head(rest)), Tail(rest))
      ELSE Deduplicated(
             [j \in DOMAIN kept |->
                IF IncludePair(kept[j]) = IncludePair(Head(rest))
                  THEN [kept[j] EXCEPT !.include = Deduplicated(@, Head(rest).include)]
                  ELSE kept[j]],
             Tail(rest))

RECURSIVE Concatenated(_, _)
Concatenated(names, i) ==
    IF i > Len(names) THEN <<>> ELSE DeclaredIncludes(names[i]) \o Concatenated(names, i + 1)

\* C26: the include list of a query is the concatenation of the include lists
\* of its scopes, in the order of application, de-duplicated by (relation,
\* alias): the first option of a pair keeps its place and the nested includes
\* of each later duplicate are merged into it by the same rule.
C26_IncludesConcatenatedDeduplicated ==
    \A i \in DOMAIN calls :
       calls[i].kind = "applyScopes" =>
          calls[i].include = Deduplicated(<<>>, Concatenated(calls[i].names, 1))

\* The first query of a model gets the list of C26.
FirstIncludesDeduplicated ==
    (calls # <<>> /\ calls[1].kind = "applyScopes") =>
       calls[1].include = Deduplicated(<<>>, Concatenated(calls[1].names, 1))

\* A query merged the nested includes of a duplicate into the kept option.
NestedMerged ==
    /\ calls # <<>> /\ calls[1].kind = "applyScopes"
    /\ calls[1].names = <<"nested", "deep">>
    /\ Len(calls[1].include) = 2
    /\ Len(calls[1].include[1].include) = 2
    /\ calls[1].include[1].required
    /\ Len(calls[1].include[1].include[1].include) = 1

\* The options the scope definitions are written with are as written.
DefinitionsUntouched ==
    (calls # <<>> /\ calls[1].kind = "applyScopes") =>
       \A x \in DOMAIN IncludeHeap : cfg.heap[x] = IncludeHeap[x]

(***************************************************************************)
(* Properties of Model.lookup.                                             *)
(***************************************************************************)
\* The positions of ids whose id is one of those of the list.
Among(ids, list) == {j \in DOMAIN ids : \E k \in DOMAIN list : list[k] = ids[j]}

\* C27: lookup(ids) answers from the identity map exactly the ids whose record
\* is resident with its hydration complete, hands every other id - absent, or
\* allocated with its hydration pending - to one batch fetch, returns the
\* resident records first and then the fetched ones, and issues no fetch when
\* every id is resident and ready.
C27_LookupDelegatesNotReady ==
    last.op = "lookup" =>
       /\ Among(last.ids, last.direct) = {j \in DOMAIN last.ids : last.found[j] = "true"}
       /\ Among(last.ids, last.missing) = {j \in DOMAIN last.ids : last.found[j] # "true"}
       /\ last.fetches = (IF \A j \in DOMAIN last.ids : last.found[j] = "true" THEN 0 ELSE 1)
       /\ last.thrown = None =>
            /\ Len(last.returned) >= Len(last.direct)
            /\ \A j \in DOMAIN last.direct : last.returned[j] = last.entities[last.direct[j]]

\* What lookup does: a resident record is answered from the identity map when
\* its _isReady is true or a promise; only the ids without an entry go to the
\* fetch, as one call, and the resident records come first.
LookupAnswersPending ==
    last.op = "lookup" =>
       /\ Among(last.ids, last.direct) =
            {j \in DOMAIN last.ids : last.found[j] \in {"true", "pending"}}
       /\ Among(last.ids, last.missing) = {j \in DOMAIN last.ids : last.found[j] = "absent"}
       /\ last.fetches = (IF \A j \in DOMAIN last.ids : last.found[j] # "absent" THEN 0 ELSE 1)
       /\ last.thrown = None =>
            /\ Len(last.returned) >= Len(last.direct)
            /\ \A j \in DOMAIN last.direct : last.returned[j] = last.entities[last.direct[j]]

\* lookup answered an id whose hydration was in flight, without a fetch.
PendingAnswered ==
    /\ last.op = "lookup" /\ last.fetches = 0
    /\ \E j \in DOMAIN last.ids : last.found[j] = "pending"

\* lookup returned a resident record followed by a fetched one.
ResidentThenFetched ==
    /\ last.op = "lookup" /\ last.thrown = None
    /\ Len(last.direct) = 1 /\ Len(last.returned) = 2
    /\ last.ids[1] = last.missing[1]

(***************************************************************************)
(* Properties of findById and findByPk.                                    *)
(***************************************************************************)
\* C28: on a model that is an inheritance parent with a discriminator field,
\* findById(id) and findByPk(id) bypass the identity map and query the table by
\* its id column; on any other model they return the entry of the identity map
\* when there is one and go through lookup otherwise.
C28_FindByIdPaths ==
    last.op \in {"findById", "findByPk"} =>
       IF last.discriminator
         THEN last.path = "query" /\ last.where = InferTable(last.model) \o ".id"
         ELSE IF last.prior # 0
           THEN last.path = "entities" /\ last.result = last.prior
           ELSE last.path = "lookup"

\* What findById does: the entry of the identity map when there is one, on
\* every model; otherwise the query by the id column on a model with a
\* discriminator, and lookup on the others.
FindByIdMapFirst ==
    last.op \in {"findById", "findByPk"} =>
       IF last.prior # 0
         THEN last.path = "entities" /\ last.result = last.prior /\ last.where = None
         ELSE IF last.discriminator
           THEN last.path = "query" /\ last.where = InferTable(last.model) \o ".id"
           ELSE last.path = "lookup"

\* findByPk on the parent model with a discriminator queried the table and
\* got the record of the child model.
ParentQueried ==
    /\ last.op = "findByPk" /\ last.model = "Base" /\ last.discriminator
    /\ last.path = "query" /\ last.result # 0
    /\ records[last.result].model = "ChildA"

\* findById on the parent model with a discriminator answered from the
\* identity map.
ParentAnsweredFromMap ==
    /\ last.op = "findById" /\ last.model = "Base" /\ last.discriminator
    /\ last.path = "entities"

(***************************************************************************)
(* Properties of Model._init and Model.extends.                            *)
(***************************************************************************)
\* The calls that run _init.
InitUses == {"query", "allocate", "create"}

\* The last call was a use of a model that an extension had reset after an
\* earlier initialization.
Reinitializing ==
    /\ last.op \in InitUses
    /\ ~last.before[last.model].cls_init
    /\ last.before[last.model].inits > 0

\* _init on an initialized model changes nothing and emits nothing; extends on
\* an initialized model resets cls_init and empties its identity map.
Memoized ==
    /\ (last.op = "query" /\ last.before[last.model].cls_init) =>
          models = last.before /\ last.thrown = None
    /\ (last.op \in InitUses /\ last.before[last.model].cls_init) =>
          \A m \in Models :
             /\ models[m].inits = last.before[m].inits
             /\ models[m].fields = last.before[m].fields
             /\ models[m].cls_init = last.before[m].cls_init
    /\ (last.op = "register" /\ last.before[last.model].cls_init) =>
          /\ ~models[last.model].cls_init
          /\ models[last.model].entities = {}

\* The model of the last call is initialized once more, with the fields the
\* extensions added among its fields.
Reinitialized ==
    /\ last.thrown = None
    /\ models[last.model].cls_init
    /\ models[last.model].inits = last.before[last.model].inits + 1
    /\ FieldNames(last.before[last.model].fields) \subseteq FieldNames(models[last.model].fields)

\* C29: initialization is idempotent and memoized: _init on an initialized
\* model changes nothing and emits no 'init' event; registering another class
\* for an initialized model resets cls_init and empties the identity map of
\* the model, and the next query, allocate or create initializes the model
\* again with the merged fields.
C29_InitMemoizedAndReset ==
    /\ Memoized
    /\ Reinitializing => Reinitialized

\* The same for the models that inherit from no other.
RootReinitialized ==
    /\ Memoized
    /\ (Reinitializing /\ Inherits(last.model) = None) => Reinitialized

\* A child model that an extension has reset throws at its next use when a
\* Field object converts to the default property key.
ChildReinitThrows ==
    /\ Reinitializing /\ Inherits(last.model) # None
    /\ "extra" \in FieldNames(last.before[last.model].fields)
    /\ last.thrown = "SecondReferenceField"
    /\ ~models[last.model].cls_init

\* A model without a parent was extended with a field after its first use and
\* initialized again.
RootReinitializedWithField ==
    /\ Reinitializing /\ Inherits(last.model) = None /\ Reinitialized
    /\ "extra" \in FieldNames(models[last.model].fields)

\* The fields of a model marked as discriminator.
Discriminators(model) == {i \in DOMAIN model.fields : model.fields[i].isDiscriminator}

\* How often the name n is in the list.
Occurrences(list, n) == Cardinality({i \in DOMAIN list : list[i] = n})

\* C30: an initialized model has one resolved primary field, the field `id`
\* when no field was declared as primary; a parent has at most one field marked
\* as discriminator whatever children were initialized, in whatever order and
\* however often; a child that would add a second one throws; and the name of
\* each initialized child is in the list of models of the discriminator once.
C30_OnePrimaryOneDiscriminator ==
    /\ \A m \in Models :
          /\ models[m].cls_init =>
                /\ models[m].primaryField \in FieldNames(models[m].fields)
                /\ models[m].fields[FieldAt(models[m].fields, models[m].primaryField)].type
                     = "primary"
                /\ (\A i \in DOMAIN cfg.declared[m] : cfg.declared[m][i].type # "primary")
                     => models[m].primaryField = "id"
          /\ Cardinality(Discriminators(models[m])) <= 1
          /\ \A i \in DOMAIN models[m].fields, c \in Models :
                Occurrences(models[m].fields[i].models, c) <= 1
          /\ (models[m].cls_init /\ Inherits(m) # None) =>
                \E i \in Discriminators(models[Inherits(m)]) :
                   Occurrences(models[Inherits(m)].fields[i].models, m) = 1
    /\ (/\ last.op \in InitUses
        /\ ~last.before[last.model].cls_init
        /\ last.before[last.model].inheritField.kind = "name"
        /\ last.before["Base"].refField # None
        /\ last.before[last.model].inheritField.name \notin FieldNames(last.before["Base"].fields))
         => /\ last.thrown = "SecondReferenceField"
            /\ models["Base"].fields = last.before["Base"].fields
            /\ ~models[last.model].cls_init

\* Both children are initialized, one of them for the second time, and the
\* parent has one discriminator that lists each of them once.
C30_Witness ==
    /\ models["ChildA"].cls_init /\ models["ChildB"].cls_init
    /\ \E m \in {"ChildA", "ChildB"} : models[m].inits = 2
    /\ Cardinality(Discriminators(models["Base"])) = 1
    /\ models["Base"].primaryField = "id"

\* A child that names another inheritField than the one the parent has throws.
SecondDiscriminatorRefused ==
    /\ last.op \in InitUses /\ last.model = "ChildB"
    /\ last.before["ChildB"].inheritField = NameOf("kind")
    /\ last.before["Base"].refField = "_inherit"
    /\ last.thrown = "SecondReferenceField"

(***************************************************************************)
(* Properties of flush and unlink under a default scope.                   *)
(***************************************************************************)
\* The last call was a flush, with changes to write, of a record whose row
\* exists.
FlushedExisting ==
    /\ last.op = "flush" /\ last.thrown = None
    /\ DOMAIN last.before.changes # {}
    /\ last.rowBefore # {}

\* The row of the last call's record holds the values that were pending.
RowHoldsChanges ==
    \A row \in RowOf(tables, records[last.target]) :
       \A k \in DOMAIN last.before.changes : row[k] = last.before.changes[k]

\* C31: flush and unlink act on the row with the key of the record whatever
\* the default scope of the model is: after a flush of a dirty record whose
\* row exists the row holds the changed values, and after an unlink the row
\* is gone, also when the row does not satisfy the default scope.
C31_WritesIgnoreDefaultScope ==
    /\ FlushedExisting => RowOf(tables, records[last.target]) # {} /\ RowHoldsChanges
    /\ last.op = "unlink" => RowOf(tables, records[last.target]) = {}

\* The row of the last call satisfied the default scope of the model, if any.
RowInScope ==
    \A row \in last.rowBefore : HasDefault(cfg) => Matches(row, cfg.default.where)

\* The same for the rows that satisfy the default scope.
WritesWithinDefaultScope ==
    /\ (FlushedExisting /\ RowInScope) =>
          RowOf(tables, records[last.target]) # {} /\ RowHoldsChanges
    /\ (last.op = "unlink" /\ RowInScope) => RowOf(tables, records[last.target]) = {}

\* The UPDATE and the DELETE reach the rows with the key that satisfy the
\* default scope, and no other.
WritesReachScopedRows ==
    last.op \in {"flush", "unlink"} =>
       last.reached \subseteq
          {row.id : row \in {x \in last.rowBefore :
                               HasDefault(cfg) => Matches(x, cfg.default.where)}}

\* A flush of a record of a soft-deleted row wrote nothing and left the
\* record clean.
ScopedFlushLost ==
    /\ FlushedExisting /\ last.reached = {}
    /\ ~records[last.target].isDirty /\ records[last.target].flushed
    /\ RowOf(tables, records[last.target]) = last.rowBefore

\* An unlink of a record of a soft-deleted row left the row.
ScopedUnlinkLost ==
    /\ last.op = "unlink" /\ last.reached = {}
    /\ RowOf(tables, records[last.target]) # {}
    /\ records[last.target].data.id \notin models.entities

(***************************************************************************)
(* Properties of flush calls in flight.                                    *)
(***************************************************************************)
\* No call of flush on record r is in flight.
Quiet(r) == \A i \in 1..Len(calls) : calls[i].target = r => calls[i].pc = "done"

RowOfRecord(r) == tables[records[r].model][IdOf(Current(records[r]))]

\* Every stored field of record r that is not a pending change has in _data
\* the value of the row, and pending changes come with _isDirty.
NothingLost(r) ==
    /\ \A f \in {g \in Fields(models, records[r].model) \cap DOMAIN records[r].data :
                   Stored(g) /\ g \notin DOMAIN records[r].changes} :
          Has(RowOfRecord(r), f) /\ RowOfRecord(r)[f] = records[r].data[f]
    /\ records[r].changes # EmptyObj => records[r].isDirty

\* C32: no local change is lost by an in-flight flush: once the flush calls
\* of a record have resolved, a value assigned while one was suspended has
\* been written to the row or is still a pending change of a dirty record;
\* _data never holds a value as persisted that storage has not received.
C32_NoChangeLostInFlight == \A r \in RecordIds : Quiet(r) => NothingLost(r)

\* The same for the records no assignment reached while an UPDATE of theirs
\* was awaited.
AssignedDuringUpdate(r) ==
    \E k \in Assigned(last) :
        /\ last[k].rec = r
        /\ Cardinality({j \in 1..(k - 1) : last[j].rec = r /\ last[j].ev = "update"})
             > Cardinality({j \in 1..(k - 1) : last[j].rec = r /\ last[j].ev = "updated"})

ChangesKeptOutsideUpdate ==
    \A r \in RecordIds : (Quiet(r) /\ ~AssignedDuringUpdate(r)) => NothingLost(r)

\* A flush resolved after an assignment made while its hooks were awaited.
AssignedDuringHooks ==
    \E r \in RecordIds :
        /\ Quiet(r) /\ ~AssignedDuringUpdate(r)
        /\ \E k \in Assigned(last) :
              /\ last[k].rec = r
              /\ \E j \in 1..(k - 1) : last[j].rec = r /\ last[j].ev = "pre_update"
              /\ \E j \in (k + 1)..Len(last) : last[j].rec = r /\ last[j].ev = "update"

\* A flush resolved with a value in _data that the row does not hold.
ChangeLost == \E r \in RecordIds : Quiet(r) /\ ~NothingLost(r) /\ AssignedDuringUpdate(r)

\* How often ev was logged for record r.
Logged(ev, r) == Cardinality({k \in 1..Len(last) : last[k].ev = ev /\ last[k].rec = r})

\* The calls of flush made on record r itself.
FlushesOf(r) == {i \in 1..Len(calls) : calls[i].target = r}

\* C39: for any interleaving of concurrent flush calls on one dirty record,
\* with or without a parent, and no assignment between them, at most one
\* UPDATE is issued for the pending changes of a record and the hooks of the
\* record run at most once.
C39_OneUpdatePerPendingSet ==
    Assigned(last) = {} =>
        \A r \in RecordIds :
            /\ Logged("update", r) <= 1
            /\ Logged("pre_update", r) <= 1
            /\ Logged("post_update", r) <= 1

\* Two flush calls on a dirty record with a parent have resolved after one
\* UPDATE.
C39_Witness ==
    /\ Assigned(last) = {}
    /\ \E i, j \in FlushesOf(3) : i < j /\ calls[i].pc = "done" /\ calls[j].pc = "done"
    /\ Logged("update", 3) = 1
    /\ Logged("pre_update", 3) = 1

\* The same on a record without parent, the second call made while the
\* UPDATE of the first was awaited.
SecondFlushDuringUpdate ==
    /\ Assigned(last) = {}
    /\ \E i, j \in FlushesOf(1) : i < j /\ calls[i].pc = "update" /\ calls[j].pc = "done"

\* With an assignment made while the hooks of a first call were awaited, a
\* second call sends the payload of the first again.
SentTwice ==
    \E r \in RecordIds, j, k \in 1..Len(last) :
        /\ j < k
        /\ last[j].ev = "update" /\ last[j].rec = r
        /\ last[k].ev = "update" /\ last[k].rec = r
        /\ last[j].payload = last[k].payload

(***************************************************************************)
(* Properties of unlink calls in flight.                                   *)
(***************************************************************************)
\* The events frame i logged.
EventsOf(i) == {k \in 1..Len(last) : last[k].ev \in {"pre_unlink", "delete", "post_unlink"}
                                      /\ last[k].payload = i}

\* The calls of unlink on record r that found it attached.
Effective(r) == {i \in 1..Len(calls) : calls[i].target = r /\ calls[i].model # None}

\* C40: for any number of sequential or concurrent unlink calls on one
\* record, its unlink hooks run at most once and at most one DELETE is issued
\* for its row; every call after the first returns the record without any
\* hook or storage operation.
C40_UnlinkOnce ==
    \A r \in RecordIds :
        /\ Logged("pre_unlink", r) <= 1
        /\ Logged("delete", r) <= 1
        /\ Logged("post_unlink", r) <= 1
        /\ Cardinality(Effective(r)) <= 1
        /\ \A i \in 1..Len(calls) :
              (calls[i].target = r /\ \E j \in Effective(r) : j < i) =>
                  calls[i].pc = "done" /\ calls[i].model = None /\ EventsOf(i) = {}

\* Three calls on one record, the later ones returned while the first is
\* awaiting its DELETE.
C40_Witness ==
    \E r \in RecordIds, i, j, k \in 1..Len(calls) :
        /\ i < j /\ j < k
        /\ calls[i].target = r /\ calls[j].target = r /\ calls[k].target = r
        /\ calls[i].pc = "delete"
        /\ calls[j].pc = "done" /\ calls[k].pc = "done"
        /\ Logged("delete", r) = 1

\* A call made after the first call has rejected returns at once as well.
ReturnsAfterFailure ==
    \E r \in RecordIds, i, j \in 1..Len(calls) :
        /\ i < j /\ calls[i].target = r /\ calls[j].target = r
        /\ calls[i].pc = "failed" /\ calls[j].pc = "done"

\* C37: Model.flush and Repository.flush complete without raising whenever
\* the flush of every dirty record succeeds (here: no record is dirty), also
\* when an identity map holds a record whose _model is null because its
\* unlink is in flight or has failed before removing it from the map.
C37_FlushCompletes == \A k \in Flushes(last) : last[k].outcome = "resolved"

\* The same for the flushes that find no detached record in a map.
FlushCompletesWhenAttached ==
    \A k \in Flushes(last) : ~last[k].detached => last[k].outcome = "resolved"

\* A Model.flush called while an unlink is in flight raised.
FlushRaisedInFlight ==
    \E k \in Flushes(last) :
        /\ last[k].outcome = "TypeError"
        /\ \E i \in 1..Len(calls) : calls[i].pc \in {"pre", "delete", "parent", "post"}

\* A Repository.flush called after an unlink has failed raised.
FlushRaisedAfterFailure ==
    \E k \in Flushes(last) :
        /\ last[k].ev = "repo_flush" /\ last[k].outcome = "TypeError"
        /\ \A i \in 1..Len(calls) : calls[i].pc \in {"done", "failed"}

\* No call of unlink is in flight.
Settled == \A i \in 1..Len(calls) : calls[i].pc \in {"done", "failed"}

\* Every row of a parent table whose discriminator names a child model has
\* a row with the same key in the table of that model.
ChildRowsPresent ==
    \A m \in Models : \A id \in DOMAIN tables[m] :
        Has(tables[m][id], InheritField) =>
            Has(tables[tables[m][id][InheritField]], id)

\* C36: in every state reached once no create or unlink is in flight, each
\* parent-table row whose discriminator names child model C has a row with
\* the same primary key in the table of C, also after an unlink of a C record
\* whose parent deletion failed.
C36_ChildRowForEveryParentRow == Settled => ChildRowsPresent

\* The same for the runs in which no awaited step was rejected.
ChildRowsPresentWithoutFailure ==
    (\A i \in 1..Len(calls) : calls[i].pc = "done") => ChildRowsPresent

\* The unlink of a child record rejected after its own row was deleted and
\* the deletion of the row of the parent failed.
ParentRowLeftBehind ==
    /\ Settled /\ ~ChildRowsPresent
    /\ \E i \in 1..Len(calls) : calls[i].pc = "failed" /\ calls[i].waits # 0

\* C34: a Request whose scope resolution failed never executes unscoped:
\* every await of a Request that names an unregistered scope rejects, and no
\* query is executed for it without the requested scopes and the default
\* scope applied.
C34_FailedResolutionNeverExecutes ==
    (req.kind = "scope" /\ req.awaits >= 1 /\ Unregistered(cfg, req) # {}) =>
        req.outcome.status = "rejected"

\* The second await of such a Request returned rows, with no predicate of a
\* scope pushed onto the query.
SecondAwaitExecuted ==
    /\ req.kind = "scope" /\ req.awaits = 2 /\ Unregistered(cfg, req) # {}
    /\ req.outcome.status = "rows"
    /\ req.wheres = <<>>
    /\ req.outcome.rows = Rows

\* What applyScopes returns for a list of names on a builder no call has
\* been made on yet.
FirstAnswer(names) ==
    IncludeTree(ApplyIncludeScopes(IncludeHeap, <<>>, names, 1).heap,
                ApplyIncludeScopes(IncludeHeap, <<>>, names, 1).result)

\* C38: applyScopes does not modify the registered scope definitions: after
\* any sequence of calls on one builder the definitions are as written, and
\* each call returned, nested includes included, what the very first call
\* with its list of names would have returned.
C38_ApplyScopesLeavesDefinitions ==
    /\ \A x \in DOMAIN IncludeHeap : cfg.heap[x] = IncludeHeap[x]
    /\ \A i \in DOMAIN calls :
          calls[i].kind = "applyScopes" => calls[i].include = FirstAnswer(calls[i].names)

\* A call returned something else than the first call with its list of names
\* would have returned.
LaterAnswerDiffers ==
    \E i \in DOMAIN calls :
        /\ calls[i].kind = "applyScopes"
        /\ calls[i].include # FirstAnswer(calls[i].names)

\* C33: uncommitted transaction data never reaches the shared entry cache:
\* while the transaction has not committed, open or rolled back, the cache
\* holds no value under Model:id written by a create of the transaction or
\* by a flush of a record of the transaction repository.
C33_NoUncommittedInCache ==
    Positions(tx, "commit") = {} =>
        \A key \in DOMAIN tx.recs : ~Has(cache, EntryKey(key))

\* The creates, loads and assignments of a transaction write no entry: before
\* the commit the cache is empty as long as no record was flushed.
OnlyFlushWritesBeforeCommit ==
    (Positions(tx, "commit") = {} /\ Positions(tx, "set") = {}) => cache = EmptyObj

\* The transaction has rolled back and thrown, and the cache holds the value
\* a flush inside it wrote.
RolledBackValueCached ==
    /\ tx.pc = "thrown"
    /\ Positions(tx, "rollback") # {}
    /\ \E key \in DOMAIN tx.recs : Has(cache, EntryKey(key))

\* The step left the _data and _changes of every record that existed and
\* every identity map as they were.
MemoryKept ==
    /\ \A r \in DOMAIN records :
          /\ records'[r].data = records[r].data
          /\ records'[r].changes = records[r].changes
    /\ \A m \in Models : models'[m].entities = models[m].entities

\* C35: a failed Model.create leaves in-memory state unchanged: when
\* create(data) rejects, the identity maps and the _data and _changes of
\* every record that existed before the call are as before the call, also
\* when data.id is the key of a tracked record.
C35_FailedCreateKeepsMemory ==
    [][(last'.op = "create" /\ last'.thrown # None) => MemoryKept]_vars

\* The same for the creates on a model without parent whose data has no key.
RootCreateWithoutKeyKeepsMemory ==
    [][(/\ last'.op = "create" /\ last'.thrown # None
        /\ Inherits(last'.model) = None /\ ~Has(last'.data, "id")) => MemoryKept]_vars

\* A create on a model without parent, with data without key, has rejected.
RootCreateWithoutKeyRejected ==
    /\ last.op = "create" /\ last.thrown # None
    /\ Inherits(last.model) = None /\ ~Has(last.data, "id")

\* A create rejected with data whose key named a tracked record.
CreateOnTrackedRejected ==
    /\ last.op = "create" /\ last.thrown # None
    /\ last.prior # 0

\* The part of C35 on the record data.id names: its _data is as before the
\* rejected create.
FailedCreateKeepsTrackedData ==
    [][(last'.op = "create" /\ last'.thrown # None /\ last'.prior # 0) =>
          records'[last'.prior].data = records[last'.prior].data]_vars

====
